---- MODULE Spec2Model ----
(***************************************************************************)
(* Model of the volumetric-reconstruction core of the geometry repository: *)
(* the octree, the topology layer (octtopo_t), the boundary extractor      *)
(* (node_boundary_t) and the planar-region graph (planar_region_graph_t).  *)
(*                                                                         *)
(* Octree nodes are named by their path from the root (the sequence of     *)
(* child indices); lengths are integers, the deepest modelled leaf having  *)
(* halfwidth 1.                                                            *)
(***************************************************************************)
EXTENDS Integers, Sequences, FiniteSets, TLC

VARIABLES
    tree,          \* the set of allocated octree nodes (paths, prefix closed)
    order,         \* the order of the node pointers (iteration order of maps)
    data,          \* octnode_t::data of every leaf
    data0,         \* history: the payloads before the running operation
    pc,            \* position of the running operation
    ret,           \* the value returned by the operation
    neighs,        \* octtopo_t::neighs : node -> octneighbors_t
    stack,         \* the call stack of init_children: frames <<node, i>>
    visited,       \* remove_nonleafs: the map entries the loop has passed
    to_remove,     \* remove_nonleafs: the local set to_remove
    neigh_thresh,  \* remove_outliers: the argument, in hundredths
    in_to_check,   \* remove_outliers: queue of interior entries
    out_to_check,  \* remove_outliers: queue of exterior entries
    hist,          \* history of remove_outliers (flips, re-queued leaves)
    scheme,        \* node_boundary_t::scheme
    faces,         \* node_boundary_t::faces : node_face_t -> neighbour faces
    node_face_map, \* node_boundary_t::node_face_map, as a set of pairs
    planarity_threshold, \* planar_region_graph_t::planarity_threshold
    distance_threshold,  \* planar_region_graph_t::distance_threshold
    useiso,        \* the default of find_face_centers' argument useiso
    regions,       \* planar_region_graph_t::regions : seed -> region info
    seeds,         \* planar_region_graph_t::seeds : face -> seed
    pq,            \* coalesce_regions: the priority queue of pairs
    merged,        \* history: the last merge of coalesce_regions
    approx,        \* history: a decision rested on an error not computed
    X,             \* an octdata_t object
    Y,             \* a second octdata_t object
    nops,          \* the number of calls made on X and Y
    last,          \* history: the last call made on X and Y
    settings,      \* mesher_t: the parameters import sets
    imported,      \* history: the last import and init of the settings
    vertices,      \* mesher_t::vertices : corner -> vertex_info_t
    mesh_regions,  \* mesher_t::regions : seed -> region_info_t
    vert_inds,     \* compute_mesh: the local map vert_inds
    mesh,          \* the vertices of the mesh compute_mesh writes
    exporter,      \* the function of tree_exporter that is running
    object_faces,  \* export_all: object_boundary.faces
    calls          \* history: the calls the exporter has made, in order

treeVars == <<tree, order, data, data0>>
topoVars == <<neighs, stack, visited, to_remove>>
outlVars == <<neigh_thresh, in_to_check, out_to_check, hist>>

bndVars == <<scheme, faces, node_face_map>>

regVars ==
    <<planarity_threshold, distance_threshold, useiso, regions, seeds, pq, merged, approx>>

payVars == <<X, Y, nops, last>>

\* the variables of the objects that are not part of the tree, the topology,
\* the boundary or the region graph
meshVars == <<settings, imported, vertices, mesh_regions, vert_inds, mesh>>

\* the variables of a function of tree_exporter
expVars == <<exporter, object_faces, calls>>

extVars == <<payVars, meshVars, expVars>>

vars == <<treeVars, pc, ret, topoVars, outlVars, bndVars, regVars, extVars>>

(***************************************************************************)
(* Bounds of the model                                                     *)
(***************************************************************************)

\* how many of the nodes of CandSeq may be subdivided
NumCand == 5

\* the nodes that can be internal nodes, in the order they are admitted
CandSeq == << <<>>, <<0>>, <<1>>, <<0, 1>>, <<1, 0>>, <<1, 7>>, <<0, 6>> >>

\* the sets of child indices that are absent below every internal node
MissPatterns == { {}, {3}, {2, 3, 4, 5, 6, 7} }

\* the orders in which a std::map keyed by node pointers can iterate
Orders == {"pre", "rpre", "bfs", "rbfs"}

(***************************************************************************)
(* The octree (octnode.h)                                                  *)
(***************************************************************************)

CHILDREN_PER_NODE == 8

ChildIdx == 0 .. (CHILDREN_PER_NODE - 1)

\* the null pointer
NullNode == << -1 >>

Root == << >>

RECURSIVE Pow2(_)
Pow2(k) == IF k <= 0 THEN 1 ELSE 2 * Pow2(k - 1)

RECURSIVE MaxLen(_)
MaxLen(S) ==
    IF S = {} THEN 0
    ELSE LET x == CHOOSE y \in S : TRUE
             m == MaxLen(S \ {x})
         IN IF Len(x) > m THEN Len(x) ELSE m

\* depth of the deepest node a tree of the model can hold
DepthCap == MaxLen({CandSeq[k] : k \in 1 .. Len(CandSeq)}) + 1

Prefix(p, k) == SubSeq(p, 1, k)

Parent(n) == Prefix(n, Len(n) - 1)

LastIdx(n) == n[Len(n)]

\* the trees of the model: the subdivided nodes are a prefix-closed subset
\* of the first NumCand candidates, and every subdivided node has the
\* children whose index is not in miss
Cands == {CandSeq[k] : k \in 1 .. (IF NumCand < Len(CandSeq) THEN NumCand ELSE Len(CandSeq))}

InternalSets ==
    {I \in SUBSET Cands :
        \A p \in I : \A k \in 0 .. (Len(p) - 1) : Prefix(p, k) \in I}

TreeOf(I, miss) ==
    {Root} \cup UNION {{Append(p, i) : i \in {j \in ChildIdx : j \notin miss \/ Append(p, j) \in I}} : p \in I}

Trees == {TreeOf(I, miss) : I \in InternalSets, miss \in MissPatterns}

\* octnode_t::children[i], NULL when the child is not allocated
Child(t, n, i) == IF Append(n, i) \in t THEN Append(n, i) ELSE NullNode

\* octnode_t::isleaf
IsLeaf(t, n) == \A i \in ChildIdx : Child(t, n, i) = NullNode

\* octnode_t::halfwidth
Halfwidth(n) == Pow2(DepthCap - Len(n))

\* relative_child_pos: the sign of each coordinate of child i
relative_child_pos(i) ==
    CASE i = 0 -> << 1,  1,  1>>
      [] i = 1 -> <<-1,  1,  1>>
      [] i = 2 -> <<-1, -1,  1>>
      [] i = 3 -> << 1, -1,  1>>
      [] i = 4 -> << 1,  1, -1>>
      [] i = 5 -> <<-1,  1, -1>>
      [] i = 6 -> <<-1, -1, -1>>
      [] i = 7 -> << 1, -1, -1>>
      [] OTHER -> << 0,  0,  0>>

\* octnode_t::center: a child sits half its parent's halfwidth off the
\* parent's centre
RECURSIVE Center(_)
Center(n) ==
    IF n = Root THEN <<0, 0, 0>>
    ELSE LET c == Center(Parent(n))
             r == relative_child_pos(LastIdx(n))
             h == Halfwidth(n)
         IN <<c[1] + h * r[1], c[2] + h * r[2], c[3] + h * r[3]>>

(***************************************************************************)
(* Cube faces (namespace octtopo)                                          *)
(***************************************************************************)

FACE_ZMINUS == "zminus"
FACE_YMINUS == "yminus"
FACE_XMINUS == "xminus"
FACE_XPLUS == "xplus"
FACE_YPLUS == "yplus"
FACE_ZPLUS == "zplus"

NUM_FACES_PER_CUBE == 6

all_cube_faces ==
    <<FACE_ZMINUS, FACE_YMINUS, FACE_XMINUS, FACE_XPLUS, FACE_YPLUS, FACE_ZPLUS>>

Faces == {all_cube_faces[k] : k \in 1 .. NUM_FACES_PER_CUBE}

get_opposing_face(f) ==
    CASE f = FACE_ZMINUS -> FACE_ZPLUS
      [] f = FACE_YMINUS -> FACE_YPLUS
      [] f = FACE_XMINUS -> FACE_XPLUS
      [] f = FACE_XPLUS -> FACE_XMINUS
      [] f = FACE_YPLUS -> FACE_YMINUS
      [] f = FACE_ZPLUS -> FACE_ZMINUS

\* the coordinate (1..3) a face is perpendicular to
FaceAxis(f) ==
    CASE f \in {FACE_XMINUS, FACE_XPLUS} -> 1
      [] f \in {FACE_YMINUS, FACE_YPLUS} -> 2
      [] f \in {FACE_ZMINUS, FACE_ZPLUS} -> 3

\* cube_face_normals: the outward unit normal of a face
cube_face_normals(f) ==
    CASE f = FACE_ZMINUS -> <<0, 0, -1>>
      [] f = FACE_YMINUS -> <<0, -1, 0>>
      [] f = FACE_XMINUS -> <<-1, 0, 0>>
      [] f = FACE_XPLUS -> <<1, 0, 0>>
      [] f = FACE_YPLUS -> <<0, 1, 0>>
      [] f = FACE_ZPLUS -> <<0, 0, 1>>

Abs(x) == IF x < 0 THEN -x ELSE x

(***************************************************************************)
(* octneighbors_t                                                          *)
(***************************************************************************)

\* octneighbors_t(): six empty sets
EmptyNeighbors == [f \in Faces |-> {}]

\* octneighbors_t::add: a null pointer is not stored
Add(ns, node, f) ==
    IF node = NullNode THEN ns ELSE [ns EXCEPT ![f] = @ \cup {node}]

\* octneighbors_t::remove
Remove(ns, node, f) == [ns EXCEPT ![f] = @ \ {node}]

\* octneighbors_t::get_singletons
get_singletons(ns) ==
    [f \in Faces |->
        IF Cardinality(ns[f]) = 1 THEN CHOOSE x \in ns[f] : TRUE ELSE NullNode]

\* no octdata_t object is under test
PayloadsIdle ==
    /\ X = << >>
    /\ Y = << >>
    /\ nops = 0
    /\ last = << >>

\* the values of mesher_t::import for the empty file name
DefaultSettings ==
    [node_outlierthresh |-> <<1, 1>>, coalesce_distthresh |-> <<2, 1>>,
     coalesce_planethresh |-> <<0, 1>>, use_isosurface_pos |-> FALSE,
     min_singular_value |-> <<1, 10>>, max_colinearity |-> <<99, 100>>]

\* mesher_t::mesher_t: import of the empty file name; no import or init has
\* been called since
Constructed == [xml |-> "", graph |-> "default", n |-> 0]

\* a mesher_t after its constructor, and an empty mesh
MesherIdle ==
    /\ settings = DefaultSettings
    /\ imported = Constructed
    /\ vertices = << >>
    /\ mesh_regions = << >>
    /\ vert_inds = << >>
    /\ mesh = << >>

\* no function of tree_exporter is running
ExporterIdle ==
    /\ exporter = "none"
    /\ object_faces = << >>
    /\ calls = << >>

ExtIdle == PayloadsIdle /\ MesherIdle /\ ExporterIdle

\* the variables of remove_outliers while it does not run
OutliersIdle ==
    /\ neigh_thresh = 0
    /\ in_to_check = << >>
    /\ out_to_check = << >>
    /\ hist = << >>

SEG_ALL == "all"
SEG_OBJECTS == "objects"
SEG_ROOM == "room"

\* node_boundary_t(): the scheme is SEG_ALL and the maps are empty
BoundaryEmpty ==
    /\ scheme = SEG_ALL
    /\ faces = << >>
    /\ node_face_map = {}

\* planar_region_graph_t(): the default thresholds and empty maps; the
\* queue, the merge record and the flag approx belong to coalesce_regions
RegionsEmpty ==
    /\ planarity_threshold = <<1, 2>>
    /\ distance_threshold = <<1, 1>>
    /\ useiso = FALSE
    /\ regions = << >>
    /\ seeds = << >>
    /\ pq = {}
    /\ merged = << >>
    /\ approx = FALSE

(***************************************************************************)
(* octtopo_t::init                                                         *)
(***************************************************************************)

\* a variant of get_children_of that takes every node for a leaf
get_children_of_self(t, p) == [i \in ChildIdx |-> p]

\* octtopo_t::get_children_of
get_children_of(t, p) ==
    LET isleaf == (p = NullNode \/ IsLeaf(t, p))
    IN [i \in ChildIdx |-> IF isleaf THEN p ELSE Child(t, p, i)]

\* init_children, "internal linkages of this node's children":
\* <<i, j, f>> stands for ns[i].add(node->children[j], f)
SiblingLinks ==
    { <<0, 1, FACE_XMINUS>>, <<1, 0, FACE_XPLUS>>, <<1, 2, FACE_YMINUS>>,
      <<2, 1, FACE_YPLUS>>, <<2, 3, FACE_XPLUS>>, <<3, 2, FACE_XMINUS>>,
      <<3, 0, FACE_YPLUS>>, <<0, 3, FACE_YMINUS>>,
      <<4, 5, FACE_XMINUS>>, <<5, 4, FACE_XPLUS>>, <<5, 6, FACE_YMINUS>>,
      <<6, 5, FACE_YPLUS>>, <<6, 7, FACE_XPLUS>>, <<7, 6, FACE_XMINUS>>,
      <<7, 4, FACE_YPLUS>>, <<4, 7, FACE_YMINUS>>,
      <<0, 4, FACE_ZMINUS>>, <<1, 5, FACE_ZMINUS>>, <<2, 6, FACE_ZMINUS>>,
      <<3, 7, FACE_ZMINUS>>, <<4, 0, FACE_ZPLUS>>, <<5, 1, FACE_ZPLUS>>,
      <<6, 2, FACE_ZPLUS>>, <<7, 3, FACE_ZPLUS>> }

\* a cousin table that links every child to the cousin of its own index
CousinLinks_same_index ==
    {<<i, i, f>> : i \in ChildIdx, f \in Faces}

\* init_children, "external linkages to other nodes on current level":
\* <<i, j, f>> stands for ns[i].add(cousins[j], f), cousins being the
\* children of uncles[f]
CousinLinks ==
    { <<0, 1, FACE_XPLUS>>, <<3, 2, FACE_XPLUS>>, <<4, 5, FACE_XPLUS>>,
      <<7, 6, FACE_XPLUS>>,
      <<1, 0, FACE_XMINUS>>, <<2, 3, FACE_XMINUS>>, <<5, 4, FACE_XMINUS>>,
      <<6, 7, FACE_XMINUS>>,
      <<0, 3, FACE_YPLUS>>, <<1, 2, FACE_YPLUS>>, <<4, 7, FACE_YPLUS>>,
      <<5, 6, FACE_YPLUS>>,
      <<3, 0, FACE_YMINUS>>, <<2, 1, FACE_YMINUS>>, <<7, 4, FACE_YMINUS>>,
      <<6, 5, FACE_YMINUS>>,
      <<0, 4, FACE_ZPLUS>>, <<1, 5, FACE_ZPLUS>>, <<2, 6, FACE_ZPLUS>>,
      <<3, 7, FACE_ZPLUS>>,
      <<4, 0, FACE_ZMINUS>>, <<5, 1, FACE_ZMINUS>>, <<6, 2, FACE_ZMINUS>>,
      <<7, 3, FACE_ZMINUS>> }

\* init_children: the neighbour object ns[i] built for child i of node,
\* uncles being the singletons of the node's own neighbours
ChildNeighbors(t, node, uncles, i) ==
    [f \in Faces |->
        ({Child(t, node, l[2]) : l \in {s \in SiblingLinks : s[1] = i /\ s[3] = f}}
         \cup
         {get_children_of(t, uncles[f])[l[2]] :
                l \in {c \in CousinLinks : c[1] = i /\ c[3] = f}})
        \ {NullNode}]

\* position of a node in the iteration order of a map keyed by node pointer
RECURSIVE PathCode(_, _)
PathCode(n, k) ==
    IF k > DepthCap THEN 0
    ELSE (IF k <= Len(n) THEN n[k] + 1 ELSE 0) * (CHILDREN_PER_NODE + 1) ^ (DepthCap - k)
         + PathCode(n, k + 1)

\* the tree whose root and eight children are subdivided: a grid of 4 x 4 x 4
\* equal leaves
GridTree == TreeOf({Root} \cup {<<i>> : i \in ChildIdx}, {})

\* a leaf of the grid that touches the centre of the root
GridCentre == <<6, 0>>

\* the thresholds given to remove_outliers, in hundredths
OutlierThresholds == {50, 60, 99, 100, 150}

\* the nodes of all trees of the model
AllNodes == UNION (Trees \cup {GridTree})

PathKey == [n \in AllNodes |-> PathCode(n, 1)]

KeySpan == (CHILDREN_PER_NODE + 1) ^ (DepthCap + 1)

NodeKey(n, ord) ==
    CASE ord = "pre" -> PathKey[n]
      [] ord = "rpre" -> KeySpan - PathKey[n]
      [] ord = "bfs" -> Len(n) * KeySpan + PathKey[n]
      [] ord = "rbfs" -> (DepthCap + 1 - Len(n)) * KeySpan + PathKey[n]

\* the first element of a non-empty set of nodes in map order
FirstNode(S, ord) == CHOOSE n \in S : \A m \in S : NodeKey(n, ord) <= NodeKey(m, ord)

\* octtopo_t::init up to the recursive call: clears the map and inserts the
\* root with no neighbours
TopoInit ==
    /\ pc = "init"
    /\ neighs' = (Root :> EmptyNeighbors)
    /\ stack' = << <<Root, 0>> >>
    /\ pc' = "init_children"
    /\ UNCHANGED <<extVars, treeVars, ret, visited, to_remove, outlVars, bndVars, regVars>>

\* init_children(node) returns: a leaf at once, an internal node after its
\* last child
InitChildrenReturn ==
    /\ pc = "init_children"
    /\ stack # << >>
    /\ LET node == Head(stack)[1]
           i == Head(stack)[2]
       IN /\ IsLeaf(tree, node) \/ i = CHILDREN_PER_NODE
          /\ stack' = Tail(stack)
    /\ UNCHANGED <<extVars, treeVars, pc, ret, neighs, visited, to_remove, outlVars, bndVars, regVars>>

\* init_children(node), one pass of the loop over the children: child i is
\* entered into the map with the neighbours built for it, then recursed into
InitChildrenStep ==
    /\ pc = "init_children"
    /\ stack # << >>
    /\ LET node == Head(stack)[1]
           i == Head(stack)[2]
           uncles == get_singletons(neighs[node])
           c == Child(tree, node, i)
       IN /\ ~IsLeaf(tree, node)
          /\ i < CHILDREN_PER_NODE
          /\ IF c = NullNode
             THEN /\ neighs' = neighs
                  /\ stack' = << <<node, i + 1>> >> \o Tail(stack)
             ELSE /\ neighs' = [m \in DOMAIN neighs \cup {c} |->
                                    IF m = c THEN ChildNeighbors(tree, node, uncles, i)
                                    ELSE neighs[m]]
                  /\ stack' = << <<c, 0>>, <<node, i + 1>> >> \o Tail(stack)
    /\ UNCHANGED <<extVars, treeVars, pc, ret, visited, to_remove, outlVars, bndVars, regVars>>

\* init: the recursion has returned, remove_nonleafs is called
CallRemoveNonleafs ==
    /\ pc = "init_children"
    /\ stack = << >>
    /\ pc' = "remove_nonleafs"
    /\ visited' = {}
    /\ to_remove' = {}
    /\ UNCHANGED <<extVars, treeVars, ret, neighs, stack, outlVars, bndVars, regVars>>

\* a pass that removes the non-leaf entries but adds no leaf
VisitEntry_no_add(t, nb, n) ==
    [m \in DOMAIN nb |->
        [f \in Faces |->
            IF m \in nb[n][get_opposing_face(f)] /\ ~IsLeaf(t, n)
            THEN nb[m][f] \ {n}
            ELSE nb[m][f]]]

\* a pass that adds the leaves but leaves the non-leaf neighbours in place
VisitEntry_keep_nonleafs(t, nb, n) ==
    [m \in DOMAIN nb |->
        [f \in Faces |->
            IF m \in nb[n][get_opposing_face(f)] /\ IsLeaf(t, n)
            THEN nb[m][f] \cup {n}
            ELSE nb[m][f]]]

\* remove_nonleafs: what one pass of the loop over the map does to the map,
\* for the entry of node n. Every neighbour of n is looked up; a leaf n is
\* added to the opposing face of each neighbour, a non-leaf n is removed
\* from it
VisitEntry(t, nb, n) ==
    [m \in DOMAIN nb |->
        [f \in Faces |->
            IF m \in nb[n][get_opposing_face(f)]
            THEN (IF IsLeaf(t, n) THEN nb[m][f] \cup {n} ELSE nb[m][f] \ {n})
            ELSE nb[m][f]]]

\* remove_nonleafs: a neighbour of n that is not a key of the map ends the
\* call with -1
MissingNeighbor(nb, n) ==
    \E f \in Faces : \E m \in nb[n][f] : m \notin DOMAIN nb

RemoveNonleafsVisit ==
    /\ pc = "remove_nonleafs"
    /\ visited # DOMAIN neighs
    /\ LET n == FirstNode(DOMAIN neighs \ visited, order)
       IN IF MissingNeighbor(neighs, n)
          THEN /\ pc' = "failed"
               /\ ret' = -1
               /\ UNCHANGED <<neighs, visited, to_remove>>
          ELSE /\ neighs' = VisitEntry(tree, neighs, n)
               /\ visited' = visited \cup {n}
               /\ to_remove' = IF IsLeaf(tree, n) THEN to_remove ELSE to_remove \cup {n}
               /\ UNCHANGED <<pc, ret>>
    /\ UNCHANGED <<extVars, treeVars, stack, outlVars, bndVars, regVars>>

\* remove_nonleafs: the non-leaf nodes are erased from the map; init returns
RemoveNonleafsErase ==
    /\ pc = "remove_nonleafs"
    /\ visited = DOMAIN neighs
    /\ neighs' = [m \in DOMAIN neighs \ to_remove |-> neighs[m]]
    /\ to_remove' = {}
    /\ pc' = "done"
    /\ ret' = 0
    /\ UNCHANGED <<extVars, treeVars, stack, visited, outlVars, bndVars, regVars>>

InitTopo ==
    /\ tree \in Trees
    /\ order \in Orders
    /\ pc = "init"
    /\ neighs = << >>
    /\ stack = << >>
    /\ visited = {}
    /\ to_remove = {}
    /\ ret = 0
    /\ data = << >>
    /\ data0 = << >>
    /\ OutliersIdle
    /\ ExtIdle
    /\ BoundaryEmpty
    /\ RegionsEmpty

NextTopo ==
    \/ TopoInit
    \/ InitChildrenStep
    \/ InitChildrenReturn
    \/ CallRemoveNonleafs
    \/ RemoveNonleafsVisit
    \/ RemoveNonleafsErase

SpecTopo == InitTopo /\ [][NextTopo]_vars

\* init has returned successfully
TopoBuilt == pc = "done" /\ ret = 0

\* C1: after init, the neighbour relation is symmetric on opposing faces:
\* whenever m is a neighbour of n on face f, n is a neighbour of m on the
\* face opposite to f.
C1_NeighborsSymmetric ==
    TopoBuilt =>
        \A n \in DOMAIN neighs : \A f \in Faces : \A m \in neighs[n][f] :
            /\ m \in DOMAIN neighs
            /\ n \in neighs[m][get_opposing_face(f)]

\* init has returned and a leaf has several finer leaves on one face
C1_Witness ==
    /\ TopoBuilt
    /\ \E n \in DOMAIN neighs : \E f \in Faces :
          /\ Cardinality(neighs[n][f]) >= 2
          /\ \A m \in neighs[n][f] : n \in neighs[m][get_opposing_face(f)]

\* C2: after init, every key of the map and every stored neighbour is a
\* leaf of the tree and a key of the map, no non-leaf remains, and a tree
\* that is a single root leaf yields one entry with six empty sets.
C2_OnlyLeaves ==
    TopoBuilt =>
        /\ \A n \in DOMAIN neighs :
              /\ n \in tree
              /\ IsLeaf(tree, n)
              /\ \A f \in Faces : \A m \in neighs[n][f] :
                    m \in tree /\ IsLeaf(tree, m) /\ m \in DOMAIN neighs
        /\ (IsLeaf(tree, Root) => neighs = (Root :> EmptyNeighbors))

\* init has returned for a tree in which a leaf lies next to a subdivided
\* node of its own size, and the map holds the leaves only
C2_Witness ==
    /\ TopoBuilt
    /\ \E p \in tree : \E n \in DOMAIN neighs :
          /\ ~IsLeaf(tree, p)
          /\ Len(p) = Len(n)
          /\ \E f \in Faces : \E m \in neighs[n][f] : Parent(m) = p
    /\ \A n \in DOMAIN neighs : IsLeaf(tree, n)

\* C3: after init, the centres of a leaf and of each of its neighbours on
\* face f lie halfwidth(n) + halfwidth(m) apart along the axis of f, the
\* neighbour on the side the face looks at, whatever the two depths.
C3_AxisDistance ==
    TopoBuilt =>
        \A n \in DOMAIN neighs : \A f \in Faces : \A m \in neighs[n][f] :
            (Center(m)[FaceAxis(f)] - Center(n)[FaceAxis(f)])
                    * cube_face_normals(f)[FaceAxis(f)]
                = Halfwidth(n) + Halfwidth(m)

\* init has returned with neighbours of equal and of different depth
C3_Witness ==
    /\ TopoBuilt
    /\ \E n \in DOMAIN neighs : \E f, g \in Faces :
          /\ \E m \in neighs[n][f] : Halfwidth(m) = Halfwidth(n)
          /\ \E m \in neighs[n][g] : Halfwidth(m) > Halfwidth(n)

(***************************************************************************)
(* The topology of a tree, as init leaves it                               *)
(***************************************************************************)

Leaves(t) == {n \in t : IsLeaf(t, n)}

\* the neighbours init_children gives node n: the root has none, a child
\* gets the ones built from its parent's
RECURSIVE InitNeighbors(_, _)
InitNeighbors(t, n) ==
    IF n = Root THEN EmptyNeighbors
    ELSE ChildNeighbors(t, Parent(n),
                        get_singletons(InitNeighbors(t, Parent(n))), LastIdx(n))

\* remove_nonleafs: the passes of the loop over the entries todo, in map
\* order
RECURSIVE VisitAll(_, _, _, _)
VisitAll(t, nb, todo, ord) ==
    IF todo = {} THEN nb
    ELSE LET n == FirstNode(todo, ord)
             nb2 == VisitEntry(t, nb, n)
         IN IF nb2 = nb THEN VisitAll(t, nb, todo \ {n}, ord)
            ELSE VisitAll(t, nb2, todo \ {n}, ord)

\* the map octtopo_t::init builds for tree t
TopoOf(t, ord) ==
    LET nb == VisitAll(t, [n \in t |-> InitNeighbors(t, n)], t, ord)
    IN [n \in Leaves(t) |-> nb[n]]

\* the step-wise construction and the map TopoOf agree
TopoAgrees == TopoBuilt => neighs = TopoOf(tree, order)

\* the neighbours of an entry in the order get() appends them to a vector:
\* face by face, each set in pointer order
RECURSIVE SetToSeq(_, _)
SetToSeq(S, ord) ==
    IF S = {} THEN << >>
    ELSE LET n == FirstNode(S, ord)
         IN <<n>> \o SetToSeq(S \ {n}, ord)

RECURSIVE AllNeighbors(_, _, _)
AllNeighbors(ns, ord, fi) ==
    IF fi > NUM_FACES_PER_CUBE THEN << >>
    ELSE SetToSeq(ns[all_cube_faces[fi]], ord) \o AllNeighbors(ns, ord, fi + 1)

Range(q) == {q[k] : k \in 1 .. Len(q)}

(***************************************************************************)
(* octdata_t (octdata.h): probabilities are fractions <<num, den>>         *)
(***************************************************************************)

\* octnode_t::data == NULL
NullData ==
    [null |-> TRUE, count |-> 0, total_weight |-> 0, prob_sum |-> 0,
     prob_sum_sq |-> 0, planar_sum |-> 0, fp_room |-> -1]

\* a payload of count samples of probability p tenths, planarity pl tenths
\* and total weight 1; the weighted sums are kept in hundredths
OctPlanar(count, p, pl, room) ==
    [null |-> FALSE, count |-> count,
     total_weight |-> IF count > 0 THEN 100 ELSE 0,
     prob_sum |-> IF count > 0 THEN 10 * p ELSE 0,
     prob_sum_sq |-> IF count > 0 THEN p * p ELSE 0,
     planar_sum |-> IF count > 0 THEN 10 * pl ELSE 0, fp_room |-> room]

\* such a payload whose samples were all seen as flat
OctData(count, p, room) == OctPlanar(count, p, 10, room)

\* octdata_t::get_planar_prob
get_planar_prob(d) ==
    IF d.count = 0 \/ d.total_weight = 0 THEN <<0, 1>>
    ELSE <<d.planar_sum, d.total_weight>>

UNOBSERVED_PROBABILITY == <<1, 2>>

\* octdata_t::get_probability
get_probability(d) ==
    IF d.count > 0 /\ d.total_weight > 0
    THEN <<d.prob_sum, d.total_weight>>
    ELSE UNOBSERVED_PROBABILITY

\* octdata_t::is_interior: get_probability() > 0.5
is_interior(d) ==
    LET pr == get_probability(d) IN 2 * pr[1] > pr[2]

\* fractions <<num, den>> with den > 0, kept in lowest terms
RECURSIVE GCD(_, _)
GCD(a, b) == IF b = 0 THEN a ELSE GCD(b, a % b)

Frac(a, b) ==
    LET g == GCD(Abs(a), Abs(b))
    IN IF b < 0 THEN <<(-a) \div g, (-b) \div g>> ELSE <<a \div g, b \div g>>

FracLess(x, y) == x[1] * y[2] < y[1] * x[2]

FracAdd(x, y) == Frac(x[1] * y[2] + y[1] * x[2], x[2] * y[2])

FracSub(x, y) == Frac(x[1] * y[2] - y[1] * x[2], x[2] * y[2])

FracMul(x, y) == Frac(x[1] * y[1], x[2] * y[2])

MAXIMUM_VARIANCE == <<1, 1>>

\* octdata_t::get_uncertainty
get_uncertainty(d) ==
    IF d.count <= 1 \/ d.total_weight = 0 THEN MAXIMUM_VARIANCE
    ELSE LET m == Frac(d.prob_sum, d.total_weight)
             m2 == Frac(d.prob_sum_sq, d.total_weight)
         IN FracSub(m2, FracMul(m, m))

\* octdata_t::get_fp_room
get_fp_room(d) == d.fp_room

\* a variant of flip that forgets the number of samples
flip_and_clear(d) ==
    [d EXCEPT !.prob_sum = d.total_weight - d.prob_sum, !.count = 0]

\* octdata_t::flip: the probability p becomes 1 - p
flip(d) == [d EXCEPT !.prob_sum = d.total_weight - d.prob_sum]

\* node->data, for a node pointer that may be null
DataOf(dat, n) == IF n \in DOMAIN dat THEN dat[n] ELSE NullData

\* octtopo_t::node_is_interior
topo_node_is_interior(dat, n) ==
    IF n = NullNode THEN FALSE
    ELSE IF DataOf(dat, n).null THEN FALSE
    ELSE is_interior(DataOf(dat, n))

(***************************************************************************)
(* node_boundary_t (node_boundary.cpp)                                     *)
(***************************************************************************)

Schemes == {SEG_ALL, SEG_OBJECTS, SEG_ROOM}

\* a variant of node_is_interior whose SEG_OBJECTS case takes a null node, a
\* node without payload and a node outside the rooms for exterior
node_is_interior_outside_exterior(sch, dat, node) ==
    LET d == DataOf(dat, node)
    IN IF sch = SEG_OBJECTS
       THEN node # NullNode /\ ~d.null /\ get_fp_room(d) >= 0 /\ is_interior(d)
       ELSE IF sch = SEG_ROOM
       THEN node # NullNode /\ ~d.null /\ (get_fp_room(d) >= 0 \/ is_interior(d))
       ELSE node # NullNode /\ ~d.null /\ is_interior(d)

\* node_boundary_t::node_is_interior under scheme sch
node_is_interior(sch, dat, node) ==
    LET d == DataOf(dat, node)
    IN CASE sch = SEG_OBJECTS ->
                IF node = NullNode THEN TRUE
                ELSE IF d.null THEN TRUE
                ELSE IF get_fp_room(d) < 0 THEN TRUE
                ELSE is_interior(d)
         [] sch = SEG_ROOM ->
                IF node = NullNode THEN FALSE
                ELSE IF d.null THEN FALSE
                ELSE IF get_fp_room(d) >= 0 THEN TRUE
                ELSE is_interior(d)
         [] OTHER ->
                IF node = NullNode THEN FALSE
                ELSE IF d.null THEN FALSE
                ELSE is_interior(d)

\* node_face_t::init
Face(i, e, f) == [interior |-> i, exterior |-> e, direction |-> f]

\* populate_faces: the neighbours looked at on face f of an entry, a null
\* pointer standing for null space when there is none
FaceNeighbors(ns, f, ord) ==
    IF ns[f] = {} THEN <<NullNode>> ELSE SetToSeq(ns[f], ord)

\* a variant that keeps every neighbour, interior or not
Exteriors_keep_interior(sch, dat, ns, f, ord) == FaceNeighbors(ns, f, ord)

\* a variant that looks at the stored neighbours only
Exteriors_no_null_space(sch, dat, ns, f, ord) ==
    SelectSeq(SetToSeq(ns[f], ord), LAMBDA e : ~node_is_interior(sch, dat, e))

\* populate_faces: the neighbours on face f that are not interior, in the
\* order the loop meets them
Exteriors(sch, dat, ns, f, ord) ==
    SelectSeq(FaceNeighbors(ns, f, ord), LAMBDA e : ~node_is_interior(sch, dat, e))

\* populate_faces: one pass of the loop over the topology, for the entry of
\* node n; st holds the faces inserted so far, the node_face_map and the
\* return value
FacesVisit(sch, dat, nb, ord, n, st) ==
    IF ~node_is_interior(sch, dat, n) THEN st
    ELSE LET newfaces ==
                 UNION {{Face(n, e, f) : e \in Range(Exteriors(sch, dat, nb[n], f, ord))} :
                            f \in Faces}
             ofexterior ==
                 {<<fc.exterior, fc>> : fc \in {g \in newfaces : g.exterior # NullNode}}
             lastface(f) ==
                 LET ext == Exteriors(sch, dat, nb[n], f, ord)
                 IN IF ext = << >> THEN {} ELSE {<<n, Face(n, ext[Len(ext)], f)>>}
             ofinterior == UNION {lastface(f) : f \in Faces}
         IN IF newfaces \cap st.faces # {}
            THEN [st EXCEPT !.ret = -1]
            ELSE [faces |-> st.faces \cup newfaces,
                  node_face_map |-> st.node_face_map \cup ofexterior \cup ofinterior,
                  ret |-> 0]

\* populate_faces: the loop over the entries todo, in map order
RECURSIVE populate_faces(_, _, _, _, _, _)
populate_faces(sch, dat, nb, ord, todo, st) ==
    IF todo = {} \/ st.ret # 0 THEN st
    ELSE LET n == FirstNode(todo, ord)
         IN populate_faces(sch, dat, nb, ord, todo \ {n},
                           FacesVisit(sch, dat, nb, ord, n, st))

Dot(a, b) == a[1] * b[1] + a[2] * b[2] + a[3] * b[3]

Cross(a, b) ==
    <<a[2] * b[3] - a[3] * b[2], a[3] * b[1] - a[1] * b[3], a[1] * b[2] - a[2] * b[1]>>

Minus(a, b) == <<a[1] - b[1], a[2] - b[2], a[3] - b[3]>>

Plus(a, b) == <<a[1] + b[1], a[2] + b[2], a[3] + b[3]>>

Scale(k, a) == <<k * a[1], k * a[2], k * a[3]>>

Max(a, b) == IF a > b THEN a ELSE b

Min(a, b) == IF a < b THEN a ELSE b

\* node_face_t::get_halfwidth
face_get_halfwidth(fc) ==
    IF fc.exterior = NullNode THEN Halfwidth(fc.interior)
    ELSE IF Halfwidth(fc.interior) < Halfwidth(fc.exterior) THEN Halfwidth(fc.interior)
    ELSE Halfwidth(fc.exterior)

\* node_face_t::get_center
face_get_center(fc) ==
    LET byinterior ==
            fc.exterior = NullNode \/ Halfwidth(fc.exterior) > Halfwidth(fc.interior)
        f == IF byinterior THEN fc.direction ELSE get_opposing_face(fc.direction)
        hw == IF byinterior THEN Halfwidth(fc.interior) ELSE Halfwidth(fc.exterior)
        p == IF byinterior THEN Center(fc.interior) ELSE Center(fc.exterior)
    IN Plus(p, Scale(hw, cube_face_normals(f)))

\* poly2d::aabb_pair_abut: the boxes touch along one coordinate and overlap
\* along the other
aabb_pair_abut(ax, ay, bx, by) ==
    \/ (ax[2] = bx[1] \/ bx[2] = ax[1]) /\ ay[1] < by[2] /\ by[1] < ay[2]
    \/ (ay[2] = by[1] \/ by[2] = ay[1]) /\ ax[1] < bx[2] /\ bx[1] < ax[2]

\* node_face_t::shares_edge_with
shares_edge_with(a, b) ==
    LET hw == face_get_halfwidth(a)
        ohw == face_get_halfwidth(b)
        center == face_get_center(a)
        othercenter == face_get_center(b)
        u == CASE FaceAxis(a.direction) = 1 -> 2
               [] FaceAxis(a.direction) = 2 -> 3
               [] OTHER -> 1
        v == CASE FaceAxis(a.direction) = 1 -> 3
               [] FaceAxis(a.direction) = 2 -> 1
               [] OTHER -> 2
        norm == cube_face_normals(a.direction)
        othernorm == cube_face_normals(b.direction)
        disp == Minus(center, othercenter)
        axis == Cross(norm, othernorm)
        disp_a == Scale(Dot(disp, axis), axis)
        disp_perp == Minus(disp, disp_a)
        manhat == Minus(Scale(ohw, norm), Scale(hw, othernorm))
    IN IF get_opposing_face(a.direction) = b.direction THEN FALSE
       ELSE IF a.direction = b.direction
       THEN aabb_pair_abut(<<center[u] - hw, center[u] + hw>>,
                           <<center[v] - hw, center[v] + hw>>,
                           <<othercenter[u] - ohw, othercenter[u] + ohw>>,
                           <<othercenter[v] - ohw, othercenter[v] + ohw>>)
       ELSE IF /\ Dot(Minus(manhat, disp_perp), Minus(manhat, disp_perp)) > 0
               /\ Dot(Plus(manhat, disp_perp), Plus(manhat, disp_perp)) > 0
       THEN FALSE
       ELSE Abs(Dot(disp, axis)) < Max(hw, ohw)

\* octtopo_t::are_neighbors
are_neighbors(nb, a, b) ==
    IF a = NullNode \/ b = NullNode \/ a = b THEN FALSE
    ELSE IF a \notin DOMAIN nb \/ b \notin DOMAIN nb THEN FALSE
    ELSE \E f \in Faces : b \in nb[a][f]

\* a variant of get_nearby_faces that looks at the neighbours on the first
\* face only
get_nearby_faces_first_face(nb, nfm, node) ==
    IF node = NullNode THEN {}
    ELSE {q[2] : q \in {r \in nfm : r[1] \in nb[node][all_cube_faces[1]]}}

\* node_boundary_t::get_nearby_faces: the faces mapped to the neighbours of
\* node
get_nearby_faces(nb, nfm, node) ==
    IF node = NullNode THEN {}
    ELSE {q[2] : q \in {r \in nfm : \E f \in Faces : r[1] \in nb[node][f]}}

\* populate_face_linkages: whether the nearby face nf is linked to face
should_link(nb, face, nf) ==
    /\ face # nf
    /\ shares_edge_with(face, nf)
    /\ \/ face.interior = nf.interior
       \/ face.exterior = nf.exterior
       \/ /\ are_neighbors(nb, face.interior, nf.interior)
          /\ are_neighbors(nb, face.exterior, nf.exterior)
          /\ face.direction = nf.direction
          /\ Dot(cube_face_normals(face.direction),
                 Minus(face_get_center(face), face_get_center(nf))) = 0

\* populate_face_linkages: the neighbour set built for face
face_linkages(nb, nfm, face) ==
    {nf \in get_nearby_faces(nb, nfm, face.interior)
            \cup get_nearby_faces(nb, nfm, face.exterior) :
        should_link(nb, face, nf)}

\* populate(topo, segscheme) up to the return of populate_faces
FacesPopulated(s) ==
    LET st == populate_faces(s, data, neighs, order, DOMAIN neighs,
                             [faces |-> DOMAIN faces,
                              node_face_map |-> node_face_map, ret |-> 0])
    IN /\ scheme' = s
       /\ faces' = [fc \in st.faces |-> IF fc \in DOMAIN faces THEN faces[fc] ELSE {}]
       /\ node_face_map' = st.node_face_map
       /\ IF st.ret # 0
          THEN pc' = "failed" /\ ret' = -1
          ELSE pc' = "populate_face_linkages" /\ ret' = 0

\* populate(topo, scheme) up to populate_face_linkages, under any scheme
PopulateFaces ==
    /\ pc \in {"done", "outliers_done"}
    /\ \E s \in Schemes : FacesPopulated(s)
    /\ UNCHANGED <<extVars, treeVars, topoVars, outlVars, regVars>>

\* populate: populate_face_linkages and the return; a face whose node is
\* not in the topology ends it with an error
PopulateFaceLinkages ==
    /\ pc = "populate_face_linkages"
    /\ IF \E fc \in DOMAIN faces :
              \/ fc.interior \notin DOMAIN neighs
              \/ fc.exterior # NullNode /\ fc.exterior \notin DOMAIN neighs
       THEN /\ pc' = "failed"
            /\ ret' = -2
            /\ faces' = faces
       ELSE /\ faces' = [fc \in DOMAIN faces |->
                            faces[fc] \cup face_linkages(neighs, node_face_map, fc)]
            /\ pc' = "populated"
            /\ ret' = 0
    /\ UNCHANGED <<extVars, treeVars, topoVars, outlVars, scheme, node_face_map, regVars>>

(***************************************************************************)
(* The boundary of small carved trees                                      *)
(***************************************************************************)

\* the largest number of leaves of a tree whose leaves take every payload
MaxRichLeaves == 3

\* the number of leaves of the trees that hold few interior leaves
MaxSparseLeaves == 15

\* the largest number of interior leaves in such a tree
MaxInterior == 2

\* a leaf is without payload, unobserved, or observed with probability 0.9
\* or 0.1, inside room 0 or outside the rooms
RichPayloads ==
    {NullData, OctData(0, 0, 0), OctData(1, 9, 0), OctData(1, 9, -1),
     OctData(1, 1, 0), OctData(1, 1, -1)}

\* the subsets of S of at most k elements
RECURSIVE KSubsets(_, _)
KSubsets(S, k) ==
    IF k <= 0 THEN {{}}
    ELSE {{}} \cup {T \cup {x} : T \in KSubsets(S, k - 1), x \in S}

RichTrees == {t \in Trees : Cardinality(Leaves(t)) <= MaxRichLeaves}

SparseTrees ==
    {t \in Trees : Cardinality(Leaves(t)) > MaxRichLeaves
                   /\ Cardinality(Leaves(t)) <= MaxSparseLeaves}

\* the payloads of the leaves of tree t
Carvings(t) ==
    IF t \in RichTrees THEN [Leaves(t) -> RichPayloads]
    ELSE {[n \in Leaves(t) |-> IF n \in S THEN OctData(1, 9, 0) ELSE OctData(1, 1, 0)] :
              S \in KSubsets(Leaves(t), MaxInterior)}

\* a carved tree whose topology has been built, and a fresh boundary object
InitBoundary ==
    /\ tree \in RichTrees \cup SparseTrees
    /\ order \in {"pre", "rbfs"}
    /\ neighs = TopoOf(tree, order)
    /\ data \in Carvings(tree)
    /\ data0 = data
    /\ pc = "done"
    /\ ret = 0
    /\ stack = << >>
    /\ visited = DOMAIN neighs
    /\ to_remove = {}
    /\ OutliersIdle
    /\ ExtIdle
    /\ BoundaryEmpty
    /\ RegionsEmpty

NextBoundary ==
    \/ PopulateFaces
    \/ PopulateFaceLinkages

SpecBoundary == InitBoundary /\ [][NextBoundary]_vars

\* populate_faces has returned: the faces are stored
FacesStored == pc \in {"populate_face_linkages", "populated"}

\* C4: for each scheme, every stored boundary face (i, e, f) has i interior
\* and e not interior under the scheme, and e is null with no neighbour of
\* i on f, or one of the neighbours of i on f.
C4_FacesSeparate ==
    FacesStored =>
        \A fc \in DOMAIN faces :
            /\ node_is_interior(scheme, data, fc.interior)
            /\ ~node_is_interior(scheme, data, fc.exterior)
            /\ fc.interior \in DOMAIN neighs
            /\ IF fc.exterior = NullNode
               THEN neighs[fc.interior][fc.direction] = {}
               ELSE fc.exterior \in neighs[fc.interior][fc.direction]

\* populate has returned under SEG_ROOM with a face against null space and
\* a face between leaves of different size
C4_Witness ==
    /\ pc = "populated"
    /\ scheme = SEG_ROOM
    /\ \E fc \in DOMAIN faces : fc.exterior = NullNode
    /\ \E fc \in DOMAIN faces :
          /\ fc.exterior # NullNode
          /\ Halfwidth(fc.exterior) # Halfwidth(fc.interior)

\* populate_faces stores a face for every interior entry and every neighbour
\* that is not interior
EmitsExteriorNeighbors ==
    \A n \in DOMAIN neighs : \A f \in Faces : \A e \in neighs[n][f] :
        (node_is_interior(scheme, data, n) /\ ~node_is_interior(scheme, data, e))
            => Face(n, e, f) \in DOMAIN faces

\* populate_faces stores the face (i, NULL, f) of every interior entry that
\* has no neighbour on f
EmitsNullSpace ==
    \A n \in DOMAIN neighs : \A f \in Faces :
        (node_is_interior(scheme, data, n) /\ neighs[n][f] = {})
            => Face(n, NullNode, f) \in DOMAIN faces

OutsideRooms(dat, n) ==
    n = NullNode \/ DataOf(dat, n).null \/ get_fp_room(DataOf(dat, n)) < 0

\* C6 as stated: under SEG_OBJECTS node_is_interior is false for a null
\* node, a leaf without payload and a leaf with fp_room < 0.
C6_AsStated ==
    (FacesStored /\ scheme = SEG_OBJECTS) =>
        \A n \in DOMAIN neighs \cup {NullNode} :
            OutsideRooms(data, n) => ~node_is_interior(scheme, data, n)

\* C6: under SEG_OBJECTS node_is_interior is true for a null node, a leaf
\* without payload and a leaf with fp_room < 0, and is the payload's
\* is_interior for a leaf inside a room.
C6_ObjectsScheme ==
    (FacesStored /\ scheme = SEG_OBJECTS) =>
        \A n \in DOMAIN neighs \cup {NullNode} :
            IF OutsideRooms(data, n)
            THEN node_is_interior(scheme, data, n)
            ELSE node_is_interior(scheme, data, n) = is_interior(data[n])

\* populate has returned under SEG_OBJECTS and has stored a face whose
\* interior leaf has probability 0.1 and lies outside the rooms, next to a
\* leaf without payload
C6_Witness ==
    /\ pc = "populated"
    /\ scheme = SEG_OBJECTS
    /\ \E fc \in DOMAIN faces :
          /\ ~is_interior(data[fc.interior])
          /\ get_fp_room(data[fc.interior]) < 0
          /\ \E f \in Faces : \E m \in neighs[fc.interior][f] : data[m].null

(***************************************************************************)
(* planar_region_graph_t (planar_region_graph.cpp, planar_region.cpp)      *)
(***************************************************************************)

\* a function, evaluated once for all its arguments
Forced(f) == IF f = << >> THEN << >> ELSE f

\* F applied to the value v, which is evaluated once
With(v, F(_)) == F(v)

\* position of a cube face in the order of the faces
DirIdx(f) == CHOOSE k \in 1 .. NUM_FACES_PER_CUBE : all_cube_faces[k] = f

\* node_face_t::operator<: a strict total order of the faces
FaceLess(a, b, ord) ==
    LET key(n) == IF n = NullNode THEN -1 ELSE NodeKey(n, ord)
    IN \/ key(a.interior) < key(b.interior)
       \/ /\ a.interior = b.interior
          /\ \/ key(a.exterior) < key(b.exterior)
             \/ /\ a.exterior = b.exterior
                /\ DirIdx(a.direction) < DirIdx(b.direction)

\* the first and the last face of a non-empty set in the order of the faces
FirstFace(S, ord) == CHOOSE a \in S : \A b \in S \ {a} : FaceLess(a, b, ord)

LastFace(S, ord) == CHOOSE a \in S : \A b \in S \ {a} : FaceLess(b, a, ord)

\* planar_region_t::floodfill(seed, boundary, blacklist): the faces added to
\* the region. The planarity threshold of this overload is 0.0, which no
\* face falls below
floodfill(seed, fcs, blacklist) ==
    LET ok(g) == g \notin blacklist /\ g.direction = seed.direction
        RECURSIVE grow(_)
        grow(acc) ==
            LET nxt == acc \cup {g \in UNION {fcs[f] : f \in acc} : ok(g)}
            IN IF nxt = acc THEN acc ELSE grow(nxt)
    IN IF ok(seed) THEN grow({seed}) ELSE {}

\* planar_region_info_t
RegionInfo(fs) ==
    [region |-> fs, neighbor_seeds |-> {}, centers |-> {}, variances |-> {}]

\* a variant of the first loop that fills from every face, used or not
populate_regions_no_blacklist(fcs, ord, todo, st) ==
    [regions |-> [f \in DOMAIN fcs |-> RegionInfo(floodfill(f, fcs, {}))],
     blacklist |-> DOMAIN fcs, ret |-> 0]

\* populate: the first loop over the faces todo of the boundary, in map
\* order; st holds the regions, the blacklist and the return value
RECURSIVE populate_regions(_, _, _, _)
populate_regions(fcs, ord, todo, st) ==
    IF todo = {} \/ st.ret # 0 THEN st
    ELSE With(FirstFace(todo, ord), LAMBDA f :
            IF f \in st.blacklist
            THEN populate_regions(fcs, ord, todo \ {f}, st)
            ELSE IF f \in DOMAIN st.regions
            THEN [st EXCEPT !.ret = -1]
            ELSE With(floodfill(f, fcs, st.blacklist), LAMBDA fill :
                    populate_regions(fcs, ord, todo \ {f},
                        [regions |-> (f :> RegionInfo(fill)) @@ st.regions,
                         blacklist |-> st.blacklist \cup fill,
                         ret |-> 0])))

\* populate: the seed map after the first loop; a face is mapped to the seed
\* of the last region that took it
SeedsOf(regs, ord) ==
    Forced([fc \in UNION {regs[s].region : s \in DOMAIN regs} |->
               LastFace({s \in DOMAIN regs : fc \in regs[s].region}, ord)])

\* populate: the faces linked to the faces of region s
LinkedFaces(fcs, regs, s) == UNION {fcs[f] : f \in regs[s].region}

\* populate: the second loop, over the regions regs with the seed map sds
populate_neighbor_seeds(fcs, regs, sds) ==
    IF \E s \in DOMAIN regs : \E nf \in LinkedFaces(fcs, regs, s) : nf \notin DOMAIN sds
    THEN [ret |-> -2, regions |-> regs, seeds |-> sds]
    ELSE [ret |-> 0,
          regions |-> Forced([s \in DOMAIN regs |->
                         [regs[s] EXCEPT !.neighbor_seeds =
                             {sds[nf] : nf \in LinkedFaces(fcs, regs, s)} \ {s}]]),
          seeds |-> sds]

\* planar_region_graph_t::populate(boundary): the return value, the regions
\* and the seed map
populate(fcs, regs, sds, ord) ==
    With(populate_regions(fcs, ord, DOMAIN fcs,
                          [regions |-> regs, blacklist |-> {}, ret |-> 0]),
         LAMBDA st :
            IF st.ret # 0 THEN [ret |-> -1, regions |-> regs, seeds |-> sds]
            ELSE populate_neighbor_seeds(fcs, st.regions, SeedsOf(st.regions, ord)))

\* the call of planar_region_graph_t::populate
RegionsPopulated(out) ==
    /\ regions' = out.regions
    /\ seeds' = out.seeds
    /\ ret' = out.ret
    /\ pc' = IF out.ret = 0 THEN "regions_populated" ELSE "failed"

RegionsPopulate ==
    /\ pc = "populated"
    /\ RegionsPopulated(populate(faces, regions, seeds, order))
    /\ UNCHANGED <<extVars, treeVars, topoVars, outlVars, bndVars, planarity_threshold,
                   distance_threshold, useiso, pq, merged, approx>>

\* node_face_t::get_area
face_get_area(fc) == 4 * face_get_halfwidth(fc) * face_get_halfwidth(fc)

\* the validity test of get_isosurface_pos and get_pos_variance
FaceValid(dat, fc) ==
    /\ fc.interior # NullNode
    /\ ~DataOf(dat, fc.interior).null
    /\ fc.exterior = NullNode \/ ~DataOf(dat, fc.exterior).null

\* mu_e and ext_hw, null space counting as an unobserved node of no size
FaceMuE(dat, fc) ==
    IF fc.exterior = NullNode THEN <<1, 2>> ELSE get_probability(DataOf(dat, fc.exterior))

FaceExtHw(fc) == IF fc.exterior = NullNode THEN 0 ELSE Halfwidth(fc.exterior)

\* a face between two nodes on the same side of the probability 0.5
FaceHidden(dat, fc) ==
    LET mu_i == get_probability(DataOf(dat, fc.interior))
        mu_e == FaceMuE(dat, fc)
    IN (2 * mu_e[1] < mu_e[2]) = (2 * mu_i[1] < mu_i[2])

\* mu_s = (mu_i - 0.5) / (mu_i - mu_e) of a face that is not hidden
FaceMuS(dat, fc) ==
    LET mu_i == get_probability(DataOf(dat, fc.interior))
        df == FracSub(mu_i, FaceMuE(dat, fc))
    IN FracMul(FracSub(mu_i, <<1, 2>>), Frac(df[2], df[1]))

\* node_face_t::get_planarity
face_get_planarity(dat, fc) ==
    IF ~FaceValid(dat, fc) THEN <<0, 1>>
    ELSE LET planar_i == get_planar_prob(DataOf(dat, fc.interior))
             planar_e == get_planar_prob(DataOf(dat, fc.exterior))
             hw_i == Halfwidth(fc.interior)
             hw_e == Halfwidth(fc.exterior)
             s == FaceMuS(dat, fc)
         IN IF fc.exterior = NullNode THEN planar_i
            ELSE IF FaceHidden(dat, fc)
            THEN FracMul(FracAdd(FracMul(<<hw_e, 1>>, planar_i),
                                 FracMul(<<hw_i, 1>>, planar_e)),
                         <<1, hw_e + hw_i>>)
            ELSE FracAdd(FracMul(s, planar_e),
                         FracMul(FracSub(<<1, 1>>, s), planar_i))

\* node_face_t::get_isosurface_pos, in half units; << >> stands for the
\* vector an invalid face leaves as it was and for a position that is not
\* on the grid of half units
face_get_isosurface_pos(dat, fc) ==
    IF ~FaceValid(dat, fc) THEN << >>
    ELSE IF FaceHidden(dat, fc) THEN Scale(2, face_get_center(fc))
    ELSE LET int_hw == Halfwidth(fc.interior)
             normal == cube_face_normals(fc.direction)
             mu_s == FaceMuS(dat, fc)
             num == 2 * mu_s[1] * (int_hw + FaceExtHw(fc))
         IN IF num % mu_s[2] # 0 THEN << >>
            ELSE Plus(Scale(2, Minus(face_get_center(fc), Scale(int_hw, normal))),
                      Scale(num \div mu_s[2], normal))

\* node_face_t::get_pos_variance; << >> stands for DBL_MAX
face_get_pos_variance(dat, fc) ==
    IF ~FaceValid(dat, fc) THEN << >>
    ELSE LET int_hw == Halfwidth(fc.interior)
             ext_hw == FaceExtHw(fc)
             var_i == get_uncertainty(DataOf(dat, fc.interior))
             var_e == IF fc.exterior = NullNode THEN <<1, 1>>
                      ELSE get_uncertainty(DataOf(dat, fc.exterior))
             mu_s == FaceMuS(dat, fc)
             ss == FracMul(mu_s, mu_s)
             var_s == FracAdd(FracMul(FracSub(<<1, 1>>, ss), var_i), FracMul(ss, var_e))
         IN IF FaceHidden(dat, fc)
            THEN Frac((ext_hw - int_hw) * (ext_hw - int_hw), 12)
            ELSE FracMul(<<(int_hw + ext_hw) * (int_hw + ext_hw), 1>>, var_s)

\* planar_region_graph_t::get_face_pos_var: the interpolated variance of
\* every valid face; <<0, 0>> stands for the result of a division by
\* mu_i - mu_e = 0, which is not a finite number
get_face_pos_var(dat, fc) ==
    IF ~FaceValid(dat, fc) THEN << >>
    ELSE LET mu_i == get_probability(DataOf(dat, fc.interior))
             int_hw == Halfwidth(fc.interior)
             ext_hw == FaceExtHw(fc)
             var_i == get_uncertainty(DataOf(dat, fc.interior))
             var_e == IF fc.exterior = NullNode THEN <<1, 1>>
                      ELSE get_uncertainty(DataOf(dat, fc.exterior))
             mu_s == FaceMuS(dat, fc)
             ss == FracMul(mu_s, mu_s)
             var_s == FracAdd(FracMul(FracSub(<<1, 1>>, ss), var_i), FracMul(ss, var_e))
         IN IF FracSub(mu_i, FaceMuE(dat, fc))[1] = 0 THEN <<0, 0>>
            ELSE FracMul(<<(int_hw + ext_hw) * (int_hw + ext_hw), 1>>, var_s)

\* planar_region_t::find_face_centers: the centre, in half units, and the
\* variance stored for a face
CenterOf(dat, iso, fc) ==
    IF iso THEN face_get_isosurface_pos(dat, fc) ELSE Scale(2, face_get_center(fc))

VarianceOf(dat, iso, fc) ==
    IF iso THEN face_get_pos_variance(dat, fc) ELSE <<face_get_area(fc), 1>>

RECURSIVE SumVec(_, _)
SumVec(S, v) ==
    IF S = {} THEN <<0, 0, 0>>
    ELSE LET x == CHOOSE y \in S : TRUE IN Plus(v[x], SumVec(S \ {x}, v))

RECURSIVE SumProd(_, _, _, _)
SumProd(S, c, k, l) ==
    IF S = {} THEN 0
    ELSE LET x == CHOOSE y \in S : TRUE
         IN c[x][k] * c[x][l] + SumProd(S \ {x}, c, k, l)

\* the largest of a non-empty set of fractions
FracMax(S) == CHOOSE x \in S : \A y \in S : ~FracLess(x, y)

\* an error that the model does not compute
UnknownErr == [known |-> FALSE, err2 |-> <<0, 1>>]

KnownErr(e) == [known |-> TRUE, err2 |-> e]

\* the deviations of the centres pos of the faces fs from their centroid,
\* times the number of faces; sum is the sum of the centres
Deviations(fs, pos, sum) ==
    Forced([f \in fs |-> Minus(Scale(Cardinality(fs), pos[f]), sum)])

\* the scatter matrix of the deviations c
Scatter(fs, c) ==
    Forced([k \in 1 .. 3 |-> Forced([l \in 1 .. 3 |-> SumProd(fs, c, k, l)])])

\* the square of the largest normalized distance to the plane through the
\* centroid with a normal along axis k
ErrAlongAxis(fs, var, c, k) ==
    KnownErr(FracMax({Frac(c[f][k] * c[f][k] * var[f][2],
                           4 * Cardinality(fs) * Cardinality(fs) * var[f][1]) : f \in fs}))

\* the same for the normal (e_k - s e_l) / sqrt(2)
ErrAlongDiagonal(fs, var, c, k, l, s) ==
    KnownErr(FracMax({Frac((c[f][k] - s * c[f][l]) * (c[f][k] - s * c[f][l]) * var[f][2],
                           8 * Cardinality(fs) * Cardinality(fs) * var[f][1]) : f \in fs}))

\* plane_t::fit followed by the loop of compute_planefit over the points, for
\* deviations c with scatter matrix cov and variances var: the square of
\* max_err. The plane is the least-squares plane through the centroid. The
\* error is computed when the centres are coplanar, when cov is diagonal
\* with one smallest entry, and when cov has one pair of coupled axes with
\* equal entries; in any other case it is not computed
FitErr(fs, var, c, cov) ==
    LET coplanar == \A f \in fs : \A g \in fs : \A h \in fs : Dot(c[f], Cross(c[g], c[h])) = 0
        offdiag == {kl \in {<<1, 2>>, <<1, 3>>, <<2, 3>>} : cov[kl[1]][kl[2]] # 0}
        others(k) == {l \in 1 .. 3 : l # k}
    IN IF coplanar THEN KnownErr(<<0, 1>>)
       ELSE IF offdiag = {}
       THEN IF \E k \in 1 .. 3 : \A l \in others(k) : cov[k][k] < cov[l][l]
            THEN ErrAlongAxis(fs, var, c,
                     CHOOSE k \in 1 .. 3 : \A l \in others(k) : cov[k][k] < cov[l][l])
            ELSE UnknownErr
       ELSE IF Cardinality(offdiag) = 1
       THEN LET kl == CHOOSE x \in offdiag : TRUE
                k == kl[1]
                l == kl[2]
                m == CHOOSE x \in 1 .. 3 : x # k /\ x # l
                lambda == cov[k][k] - Abs(cov[k][l])
                s == IF cov[k][l] > 0 THEN 1 ELSE -1
            IN IF cov[k][k] # cov[l][l] \/ lambda = cov[m][m] THEN UnknownErr
               ELSE IF lambda < cov[m][m] THEN ErrAlongDiagonal(fs, var, c, k, l, s)
               ELSE ErrAlongAxis(fs, var, c, m)
       ELSE UnknownErr

\* the square of max_err for centres pos, in half units, and variances var
MaxErrOf(fs, pos, var) ==
    IF \E f \in fs : pos[f] = << >> \/ var[f] = << >> \/ var[f][1] = 0
    THEN UnknownErr
    ELSE With(Deviations(fs, pos, SumVec(fs, pos)), LAMBDA c :
            FitErr(fs, var, c, Scatter(fs, c)))

\* compute_planefit: the square of max_err for the faces fs
MaxErr(dat, iso, fs) ==
    MaxErrOf(fs, Forced([f \in fs |-> CenterOf(dat, iso, f)]),
                 Forced([f \in fs |-> VarianceOf(dat, iso, f)]))

\* planar_region_pair_t
Pair(a, b, err, nf) == [first |-> a, second |-> b, max_err |-> err, num_faces |-> nf]

\* an entry of a vector that no face has written
NoFace == Face(NullNode, NullNode, FACE_ZMINUS)

\* compute_planefit: the centres and variances cached for region s, computed
\* when the number of cached centres is not the number of faces;
\* find_face_centers appends behind the variances it finds
Cached(regs, s) ==
    IF Cardinality(regs[s].centers) = Cardinality(regs[s].region) THEN regs[s]
    ELSE [regs[s] EXCEPT !.centers = regs[s].region,
                         !.variances = IF regs[s].variances = {} THEN regs[s].region
                                       ELSE regs[s].variances \cup {NoFace}]

\* compute_planefit with the caches ca and cb of the two regions filled
planefit_cached(regs, dat, iso, a, b, ca, cb) ==
    [ret |-> 0, undefined |-> FALSE,
     regions |-> Forced([s \in DOMAIN regs |->
                            IF s = a THEN ca ELSE IF s = b THEN cb ELSE regs[s]]),
     pair |-> Pair(a, b,
                   IF ca.variances # ca.centers \/ cb.variances # cb.centers
                   THEN UnknownErr
                   ELSE MaxErr(dat, iso, ca.centers \cup cb.centers),
                   Cardinality(ca.centers) + Cardinality(cb.centers))]

\* planar_region_graph_t::compute_planefit for the pair (a, b): the return
\* value, the regions with their caches and the pair. A second region that is
\* not in the map is dereferenced all the same: undefined is TRUE
compute_planefit(regs, dat, iso, a, b) ==
    IF a \notin DOMAIN regs
    THEN [ret |-> -1, undefined |-> FALSE, regions |-> regs, pair |-> Pair(a, b, UnknownErr, 0)]
    ELSE IF b \notin DOMAIN regs
    THEN [ret |-> 0, undefined |-> TRUE, regions |-> regs, pair |-> Pair(a, b, UnknownErr, 0)]
    ELSE planefit_cached(regs, dat, iso, a, b, Cached(regs, a), Cached(regs, b))

\* compute_planefit for the pairs of region a with each region of todo
RECURSIVE compute_planefits(_, _, _, _, _, _)
compute_planefits(st, dat, iso, a, todo, ord) ==
    IF todo = {} \/ st.ret # 0 \/ st.undefined THEN st
    ELSE With(FirstFace(todo, ord), LAMBDA b :
            With(compute_planefit(st.regions, dat, iso, a, b), LAMBDA cp :
                compute_planefits([ret |-> cp.ret, undefined |-> cp.undefined,
                                   regions |-> cp.regions,
                                   pairs |-> IF cp.ret = 0 /\ ~cp.undefined
                                             THEN st.pairs \cup {cp.pair} ELSE st.pairs],
                                  dat, iso, a, todo \ {b}, ord)))

\* coalesce_regions: the first loop, over the regions todo in map order
RECURSIVE initial_pairs(_, _, _, _, _)
initial_pairs(st, dat, iso, todo, ord) ==
    IF todo = {} \/ st.ret # 0 \/ st.undefined THEN st
    ELSE With(FirstFace(todo, ord), LAMBDA a :
            initial_pairs(
                compute_planefits(st, dat, iso, a,
                    {b \in st.regions[a].neighbor_seeds : ~FaceLess(b, a, ord)}, ord),
                dat, iso, todo \ {a}, ord))

\* a variant of merge_relink that does not add the first region to the sets
\* of the neighbours of the second
merge_relink_one_way(regs2, pair, reached) ==
    Forced([s \in DOMAIN regs2 |->
        IF s = pair.first
        THEN [regs2[s] EXCEPT
                 !.neighbor_seeds =
                     (@ \cup (reached \ {pair.first}))
                         \ (IF pair.first \in reached THEN {pair.second} ELSE {})]
        ELSE IF s \in reached
        THEN [regs2[s] EXCEPT !.neighbor_seeds = @ \ {pair.second}]
        ELSE regs2[s]])

\* merge_regions: the loop over the neighbours of the second region; regs2
\* holds the moved faces, reached the neighbours the loop passes before it
\* meets one that is not in the map
merge_relink(regs2, pair, reached) ==
    Forced([s \in DOMAIN regs2 |->
        IF s = pair.first
        THEN [regs2[s] EXCEPT
                 !.neighbor_seeds =
                     (@ \cup (reached \ {pair.first}))
                         \ (IF pair.first \in reached THEN {pair.second} ELSE {})]
        ELSE IF s \in reached
        THEN [regs2[s] EXCEPT !.neighbor_seeds = (@ \cup {pair.first}) \ {pair.second}]
        ELSE regs2[s]])

\* merge_regions: the caches are copied and the second region is erased
merge_erase(relinked, pair, sit) ==
    Forced([s \in DOMAIN relinked \ {pair.second} |->
        IF s = pair.first
        THEN [relinked[s] EXCEPT !.centers = @ \cup sit.centers,
                                 !.variances = @ \cup sit.variances]
        ELSE relinked[s]])

\* merge_regions once both regions are found: sds2 is the seed map and regs2
\* the regions after the faces have moved
merge_found(regs, pair, ord, sit, sds2, regs2) ==
    LET missing == sit.neighbor_seeds \ DOMAIN regs
        reached == {nb \in sit.neighbor_seeds : \A ms \in missing : FaceLess(nb, ms, ord)}
    IN IF pair.num_faces # Cardinality(regs2[pair.first].region)
       THEN [ret |-> -3, regions |-> regs2, seeds |-> sds2]
       ELSE IF missing # {}
       THEN [ret |-> -4, regions |-> merge_relink(regs2, pair, reached), seeds |-> sds2]
       ELSE [ret |-> 0,
             regions |-> merge_erase(merge_relink(regs2, pair, reached), pair, sit),
             seeds |-> sds2]

\* planar_region_graph_t::merge_regions: the return value, the regions and
\* the seed map
merge_regions(regs, sds, pair, ord) ==
    IF pair.first \notin DOMAIN regs THEN [ret |-> -1, regions |-> regs, seeds |-> sds]
    ELSE IF pair.second \notin DOMAIN regs THEN [ret |-> -2, regions |-> regs, seeds |-> sds]
    ELSE merge_found(regs, pair, ord, regs[pair.second],
             Forced([fc \in DOMAIN sds \cup regs[pair.second].region |->
                        IF fc \in regs[pair.second].region THEN pair.first ELSE sds[fc]]),
             Forced([regs EXCEPT ![pair.first].region = @ \cup regs[pair.second].region]))

\* the square of a threshold
Squared(x) == FracMul(x, x)

\* priority_queue::top: a pair that no pair of the queue is known to precede
TopPairs(q) ==
    {p \in q : \A o \in q :
        ~(o.max_err.known /\ p.max_err.known /\ FracLess(o.max_err.err2, p.max_err.err2))}

\* the outcomes of pair.max_err > distance_threshold
ExceedsThreshold(err, thresh) ==
    IF err.known THEN {FracLess(Squared(thresh), err.err2)} ELSE BOOLEAN

\* the state after the first loop of coalesce_regions
CoalesceStarted(st) ==
    /\ regions' = st.regions
    /\ IF st.undefined
       THEN pc' = "undefined" /\ ret' = ret /\ pq' = {}
       ELSE IF st.ret # 0
       THEN pc' = "failed" /\ ret' = -1 /\ pq' = {}
       ELSE pc' = "coalesce" /\ ret' = ret /\ pq' = st.pairs

\* coalesce_regions up to the loop over the queue
CoalesceStart ==
    /\ pc = "regions_populated"
    /\ CoalesceStarted(initial_pairs([ret |-> 0, undefined |-> FALSE,
                                      regions |-> regions, pairs |-> {}],
                                     data, useiso, DOMAIN regions, order))
    /\ merged' = << >>
    /\ UNCHANGED <<extVars, treeVars, topoVars, outlVars, bndVars, planarity_threshold,
                   distance_threshold, useiso, seeds, approx>>

\* coalesce_regions: the pair cp.pair has been merged with result mg, and the
\* pairs of its first region have been fitted with result st
CoalescePushed(pair, stale, cp, mg, st) ==
    /\ regions' = st.regions
    /\ seeds' = mg.seeds
    /\ merged' = [first |-> pair.first, second |-> pair.second, stale |-> stale,
                  cached |-> pair.max_err, max_err |-> cp.pair.max_err]
    /\ approx' = (approx \/ ~pair.max_err.known \/ ~cp.pair.max_err.known)
    /\ IF st.undefined
       THEN pc' = "undefined" /\ ret' = ret /\ pq' = {}
       ELSE IF st.ret # 0
       THEN pc' = "failed" /\ ret' = -4 /\ pq' = {}
       ELSE pc' = pc /\ ret' = ret /\ pq' = (pq \ {pair}) \cup st.pairs

\* coalesce_regions: merge_regions has returned mg for the pair cp.pair
CoalesceMerged(pair, stale, cp, mg) ==
    IF mg.ret # 0
    THEN /\ pc' = "failed"
         /\ ret' = -3
         /\ pq' = {}
         /\ regions' = mg.regions
         /\ seeds' = mg.seeds
         /\ UNCHANGED <<merged, approx>>
    ELSE CoalescePushed(pair, stale, cp, mg,
             compute_planefits([ret |-> 0, undefined |-> FALSE,
                                regions |-> mg.regions, pairs |-> {}],
                               data, useiso, pair.first,
                               mg.regions[pair.first].neighbor_seeds, order))

\* coalesce_regions: the popped pair is within the threshold and both regions
\* exist; cp is the pair as it is merged, fitted again when stale
CoalesceFitted(pair, stale, cp) ==
    IF cp.ret # 0
    THEN /\ pc' = "failed"
         /\ ret' = -2
         /\ pq' = {}
         /\ UNCHANGED <<regions, seeds, merged, approx>>
    ELSE CoalesceMerged(pair, stale, cp, merge_regions(cp.regions, seeds, cp.pair, order))

\* coalesce_regions: the checksum test of a popped pair
CoalesceChecked(pair, stale) ==
    CoalesceFitted(pair, stale,
        IF stale
        THEN compute_planefit(regions, data, useiso, pair.first, pair.second)
        ELSE [ret |-> 0, undefined |-> FALSE, regions |-> regions, pair |-> pair])

\* coalesce_regions: one pass of the loop over the queue. The pair on top
\* is popped; past the threshold the loop is left; a pair of a region that is
\* gone is dropped; a pair whose checksum differs is fitted again; the pair
\* is merged and the pairs of the first region are pushed
CoalesceStep ==
    /\ pc = "coalesce"
    /\ pq # {}
    /\ \E pair \in TopPairs(pq) : \E over \in ExceedsThreshold(pair.max_err, distance_threshold) :
         IF over
         THEN /\ pc' = "coalesced"
              /\ ret' = 0
              /\ pq' = {}
              /\ approx' = (approx \/ ~pair.max_err.known)
              /\ UNCHANGED <<regions, seeds, merged>>
         ELSE IF pair.first \notin DOMAIN regions \/ pair.second \notin DOMAIN regions
         THEN /\ pq' = pq \ {pair}
              /\ approx' = (approx \/ ~pair.max_err.known)
              /\ UNCHANGED <<pc, ret, regions, seeds, merged>>
         ELSE CoalesceChecked(pair,
                  Cardinality(regions[pair.first].region)
                      + Cardinality(regions[pair.second].region) # pair.num_faces)
    /\ UNCHANGED <<extVars, treeVars, topoVars, outlVars, bndVars, planarity_threshold,
                   distance_threshold, useiso>>

\* coalesce_regions: the queue is empty and the call returns
CoalesceReturn ==
    /\ pc = "coalesce"
    /\ pq = {}
    /\ pc' = "coalesced"
    /\ ret' = 0
    /\ UNCHANGED <<extVars, treeVars, topoVars, outlVars, bndVars, regVars>>

(***************************************************************************)
(* The regions of small carved trees                                       *)
(***************************************************************************)

\* the largest number of leaves of a tree whose regions are coalesced
MaxRegionLeaves == 2

\* distance thresholds given to planar_region_graph_t::init: a tenth of a
\* standard deviation, and the default
DistThresholds == {<<1, 10>>, <<1, 1>>}

\* a leaf is observed with probability 0.9 inside room 0, as flat or with
\* planarity 0.2, or with probability 0.1 inside room 0 or outside the rooms
RegionPayloads ==
    {OctData(1, 9, 0), OctPlanar(1, 9, 2, 0), OctData(1, 1, 0), OctData(1, 1, -1)}

\* a carved tree whose topology has been built, a fresh boundary object and
\* a region graph after init(planethresh, distthresh)
InitRegion ==
    /\ tree \in {t \in Trees : Cardinality(Leaves(t)) <= MaxRegionLeaves}
    /\ order = "pre"
    /\ neighs = TopoOf(tree, order)
    /\ data \in [Leaves(tree) -> RegionPayloads]
    /\ data0 = data
    /\ pc = "done"
    /\ ret = 0
    /\ stack = << >>
    /\ visited = DOMAIN neighs
    /\ to_remove = {}
    /\ OutliersIdle
    /\ ExtIdle
    /\ BoundaryEmpty
    /\ planarity_threshold = <<1, 2>>
    /\ distance_threshold \in DistThresholds
    /\ useiso \in BOOLEAN
    /\ regions = << >>
    /\ seeds = << >>
    /\ pq = {}
    /\ merged = << >>
    /\ approx = FALSE

NextRegion ==
    \/ PopulateFaces
    \/ PopulateFaceLinkages
    \/ RegionsPopulate
    \/ CoalesceStart
    \/ CoalesceStep
    \/ CoalesceReturn

SpecRegion == InitRegion /\ [][NextRegion]_vars

\* populate has returned, or coalesce_regions is between two passes of its
\* loop or has returned
RegionsBuilt == pc \in {"regions_populated", "coalesce", "coalesced"}

\* C7: after populate and after every merge of coalesce_regions every
\* boundary face is in exactly one region, every region holds its seed, and
\* the seed map takes every face to the seed of the region that holds it.
C7_RegionsPartition ==
    RegionsBuilt =>
        /\ UNION {regions[s].region : s \in DOMAIN regions} = DOMAIN faces
        /\ \A s \in DOMAIN regions : \A t \in DOMAIN regions :
              s # t => regions[s].region \cap regions[t].region = {}
        /\ \A s \in DOMAIN regions : s \in regions[s].region
        /\ DOMAIN seeds = DOMAIN faces
        /\ \A fc \in DOMAIN faces :
              seeds[fc] \in DOMAIN regions /\ fc \in regions[seeds[fc]].region

\* coalesce_regions has merged regions into one of three faces or more, and
\* more than one region is left
C7_Witness ==
    /\ pc = "coalesce"
    /\ merged # << >>
    /\ Cardinality(DOMAIN regions) >= 2
    /\ Cardinality(regions[merged.first].region) >= 3

\* a pair whose checksum differs is not merged in the pass that pops it
StaleNotMerged == merged # << >> => ~merged.stale

\* the error of a merged pair on the faces the two regions held at the merge
\* is within the threshold
MergeWithinThreshold ==
    (merged # << >> /\ ~approx) =>
        ~FracLess(Squared(distance_threshold), merged.max_err.err2)

\* C8 as stated: a popped pair whose cached face count differs from the
\* face count of its regions is rescored and pushed back, not merged in that
\* pass, and so every merge is of a pair whose max_err on the current faces
\* of the two regions does not exceed distance_threshold.
C8_AsStated == StaleNotMerged /\ MergeWithinThreshold

(***************************************************************************)
(* octtopo_t::remove_outliers (octtopo.cpp)                                *)
(***************************************************************************)

\* octnode_t::surface_area: six square faces of side 2 * halfwidth
surface_area(n) == 6 * (2 * Halfwidth(n)) * (2 * Halfwidth(n))

MinOf(a, b) == IF a < b THEN a ELSE b

\* a variant of the guard that lets every threshold through
any_thresh(th) == TRUE

\* the guard of remove_outliers: thresholds outside (0.5, 1.0] do nothing
valid_thresh(th) == ~(th <= 50 \/ th > 100)

\* a variant of to_check that queues every entry of the map
to_check_all(nb, dat, ord, want) == SetToSeq(DOMAIN nb, ord)

\* the first loop of remove_outliers: the entries of the map, in map order,
\* that are (want = TRUE) or are not (want = FALSE) interior
to_check(nb, dat, ord, want) ==
    SetToSeq({n \in DOMAIN nb : topo_node_is_interior(dat, n) = want}, ord)

\* the area the leaf it shares with those of its neighbours ns[ni ..] whose
\* label differs from current_in
RECURSIVE disagreeing_area(_, _, _, _, _)
disagreeing_area(dat, it, ns, current_in, ni) ==
    IF ni > Len(ns) THEN 0
    ELSE (IF topo_node_is_interior(dat, ns[ni]) # current_in
          THEN 4 * MinOf(Halfwidth(ns[ni]), Halfwidth(it))
                 * MinOf(Halfwidth(ns[ni]), Halfwidth(it))
          ELSE 0)
         + disagreeing_area(dat, it, ns, current_in, ni + 1)

\* the variant of not_below_thresh that flips only above the threshold
above_thresh(count, myarea, th) == count * 100 > th * myarea

\* count / myarea < neigh_thresh is false; th is in hundredths
not_below_thresh(count, myarea, th) == ~(count * 100 < th * myarea)

\* neighs.find(n): the entry of n, or end()
find(nb, n) == IF n \in DOMAIN nb THEN n ELSE NullNode

\* the iterators the last loop pushes: the neighbours ns[ni ..] whose label
\* is current_in
RECURSIVE agreeing(_, _, _, _, _)
agreeing(nb, dat, ns, current_in, ni) ==
    IF ni > Len(ns) THEN << >>
    ELSE (IF topo_node_is_interior(dat, ns[ni]) = current_in
          THEN <<find(nb, ns[ni])>> ELSE << >>)
         \o agreeing(nb, dat, ns, current_in, ni + 1)

\* the history of a call: the leaves flipped so far, and the leaves that had
\* the label of a flipped neighbour at its flip and have not passed the two
\* skip tests of the loop since
NoHist == [flipped |-> {}, pending |-> {}]

\* a call with threshold th / 100
OutliersCalled(th) ==
    /\ neigh_thresh' = th
    /\ IF valid_thresh(th)
       THEN /\ in_to_check' = to_check(neighs, data, order, TRUE)
            /\ out_to_check' = to_check(neighs, data, order, FALSE)
            /\ pc' = "remove_outliers"
       ELSE /\ in_to_check' = << >>
            /\ out_to_check' = << >>
            /\ pc' = "outliers_done"

\* a call with one of the thresholds OutlierThresholds
OutliersCall ==
    /\ pc = "done"
    /\ \E th \in OutlierThresholds : OutliersCalled(th)
    /\ ret' = 0
    /\ hist' = NoHist
    /\ data0' = data
    /\ UNCHANGED <<extVars, tree, order, data, topoVars, bndVars, regVars>>

\* the rest of a pass for an entry that passed the skip tests
OutliersEvaluated(it, current_in, rest_in, rest_out, ns) ==
    IF not_below_thresh(disagreeing_area(data, it, ns, current_in, 1),
                        surface_area(it), neigh_thresh)
    THEN /\ data' = [data EXCEPT ![it] = flip(@)]
         /\ in_to_check' = rest_in \o agreeing(neighs, data', ns, current_in, 1)
         /\ out_to_check' = rest_out
         /\ hist' = [flipped |-> hist.flipped \cup {it},
                     pending |-> (hist.pending \ {it})
                                 \cup {n \in Range(ns) :
                                         topo_node_is_interior(data, n) = current_in}]
         /\ UNCHANGED <<pc, ret>>
    ELSE /\ in_to_check' = rest_in
         /\ out_to_check' = rest_out
         /\ hist' = [hist EXCEPT !.pending = @ \ {it}]
         /\ UNCHANGED <<data, pc, ret>>

\* a pass for the popped entry it
OutliersPopped(it, current_in, rest_in, rest_out) ==
    IF it = NullNode
    THEN /\ ret' = -1
         /\ pc' = "outliers_done"
         /\ in_to_check' = rest_in
         /\ out_to_check' = rest_out
         /\ UNCHANGED <<data, hist>>
    ELSE IF DataOf(data, it).null \/ topo_node_is_interior(data, it) # current_in
    THEN /\ in_to_check' = rest_in
         /\ out_to_check' = rest_out
         /\ UNCHANGED <<data, hist, pc, ret>>
    ELSE OutliersEvaluated(it, current_in, rest_in, rest_out,
                           AllNeighbors(neighs[it], order, 1))

\* one pass of the loop of remove_outliers
OutliersIter ==
    /\ pc = "remove_outliers"
    /\ ~(in_to_check = << >> /\ out_to_check = << >>)
    /\ IF in_to_check = << >>
       THEN OutliersPopped(Head(out_to_check), FALSE, in_to_check, Tail(out_to_check))
       ELSE OutliersPopped(Head(in_to_check), TRUE, Tail(in_to_check), out_to_check)
    /\ UNCHANGED <<extVars, tree, order, data0, neigh_thresh, topoVars, bndVars, regVars>>

\* both queues are empty: remove_outliers returns 0
OutliersReturn ==
    /\ pc = "remove_outliers"
    /\ in_to_check = << >> /\ out_to_check = << >>
    /\ pc' = "outliers_done"
    /\ ret' = 0
    /\ UNCHANGED <<extVars, treeVars, topoVars, outlVars, bndVars, regVars>>

(***************************************************************************)
(* Outliers of small carved trees and of a grid of equal leaves            *)
(***************************************************************************)

\* the largest number of leaves of a tree given to remove_outliers, and the
\* largest number of its leaves that are interior
MaxOutlierLeaves == 15
MaxOutlierInterior == 4

\* a leaf observed once, with probability 0.9 or 0.1
InteriorLeaf == OctData(1, 9, 0)
ExteriorLeaf == OctData(1, 1, 0)

\* the grid: the centre is the only interior leaf
GridData == [n \in Leaves(GridTree) |-> IF n = GridCentre THEN InteriorLeaf ELSE ExteriorLeaf]

\* the payloads of the leaves of the tree
\* the leaves of the grid that share a face with leaf c
RingOf(c) ==
    {n \in Leaves(GridTree) :
        Abs(Center(n)[1] - Center(c)[1]) + Abs(Center(n)[2] - Center(c)[2])
          + Abs(Center(n)[3] - Center(c)[3]) = 2 * Halfwidth(c)}

\* the grid with a pocket: every leaf is interior but the centre and the
\* leaves E around it
PocketData(E) ==
    [n \in Leaves(GridTree) |->
        IF n = GridCentre \/ n \in E THEN ExteriorLeaf ELSE InteriorLeaf]

\* the grid with an island: every leaf is interior but the six neighbours
\* of the centre
IslandData ==
    [n \in Leaves(GridTree) |->
        IF n \in RingOf(GridCentre) THEN ExteriorLeaf ELSE InteriorLeaf]

InitOutlierData ==
    IF tree = GridTree
    THEN \/ data = GridData
         \/ data = IslandData
         \/ \E E \in SUBSET RingOf(GridCentre) : data = PocketData(E)
    ELSE \E I \in SUBSET Leaves(tree) :
            /\ Cardinality(I) <= MaxOutlierInterior
            /\ data = [n \in Leaves(tree) |-> IF n \in I THEN InteriorLeaf ELSE ExteriorLeaf]

\* a carved tree whose topology has been built
InitOutlier ==
    /\ tree \in {t \in Trees : Cardinality(Leaves(t)) <= MaxOutlierLeaves} \cup {GridTree}
    /\ order \in (IF tree = GridTree THEN Orders ELSE {"pre"})
    /\ neighs = TopoOf(tree, order)
    /\ InitOutlierData
    /\ data0 = data
    /\ pc = "done"
    /\ ret = 0
    /\ stack = << >>
    /\ visited = DOMAIN neighs
    /\ to_remove = {}
    /\ OutliersIdle
    /\ ExtIdle
    /\ BoundaryEmpty
    /\ RegionsEmpty

NextOutlier ==
    \/ OutliersCall
    \/ OutliersIter
    \/ OutliersReturn

SpecOutlier == InitOutlier /\ [][NextOutlier]_vars

\* C9 as stated: when remove_outliers returns, every leaf that had the label
\* of a neighbour at that neighbour's flip, in either direction, has since
\* been re-queued and evaluated against the threshold with its own label.
C9_AsStated == (pc = "outliers_done" /\ ret = 0) => hist.pending = {}

\* a leaf is left unevaluated only after the flip of an exterior neighbour
PendingOnlyAfterExteriorFlip ==
    (pc = "outliers_done" /\ ret = 0) =>
        \A n \in hist.pending : \E s \in hist.flipped :
            /\ topo_node_is_interior(data0, s) = FALSE
            /\ \E f \in Faces : n \in neighs[s][f]

GridCall == pc = "outliers_done" /\ tree = GridTree /\ data0 = GridData

BelowHalf(pr) == 2 * pr[1] < pr[2]

\* C10: for the centre of the grid (probability 0.9, its six neighbours equal
\* leaves of probability 0.1), remove_outliers with any threshold in
\* (0.5, 1.0], 0.6 and 0.99 among them, leaves the centre's probability below
\* 0.5 (at 0.1); with a threshold outside that range it leaves the payload of
\* the centre as it was.
C10_GridCentre ==
    GridCall =>
        IF valid_thresh(neigh_thresh)
        THEN get_probability(data[GridCentre]) = <<10, 100>>
        ELSE data[GridCentre] = data0[GridCentre]

\* remove_outliers(0.99) has returned on the grid and the centre is flipped
C10_Witness ==
    /\ GridCall
    /\ neigh_thresh = 99
    /\ get_probability(data0[GridCentre]) = <<90, 100>>
    /\ \A f \in Faces : \E n \in neighs[GridCentre][f] :
          /\ neighs[GridCentre][f] = {n}
          /\ Halfwidth(n) = Halfwidth(GridCentre)
          /\ get_probability(data0[n]) = <<10, 100>>
    /\ BelowHalf(get_probability(data[GridCentre]))

\* C10 as stated: below 0.5 after remove_outliers(0.6), unchanged at 0.9
\* after remove_outliers(0.99)
C10_AsStated ==
    GridCall =>
        /\ neigh_thresh = 60 => BelowHalf(get_probability(data[GridCentre]))
        /\ neigh_thresh = 99 => get_probability(data[GridCentre]) = <<90, 100>>

(***************************************************************************)
(* Double arithmetic, at a reduced width: a number is <<m, e>>, the value  *)
(* m * 2^e with |m| < 2^MantBits, and every operation rounds its exact     *)
(* result to the nearest such number, ties to the even mantissa            *)
(***************************************************************************)

\* the number of bits of a mantissa
MantBits == 5

\* the number of binary digits of n >= 0
RECURSIVE BitLen(_)
BitLen(n) == IF n = 0 THEN 0 ELSE 1 + BitLen(n \div 2)

\* m * 2^e for m > 0, rounded: k low bits of m are dropped
RoundDrop(m, e, k) ==
    LET q == m \div Pow2(k)
        r == m % Pow2(k)
        q2 == IF 2 * r > Pow2(k) \/ (2 * r = Pow2(k) /\ q % 2 = 1) THEN q + 1 ELSE q
    IN IF q2 = Pow2(MantBits) THEN <<Pow2(MantBits - 1), e + k + 1>> ELSE <<q2, e + k>>

RoundPos(m, e) ==
    IF BitLen(m) <= MantBits
    THEN <<m * Pow2(MantBits - BitLen(m)), e - (MantBits - BitLen(m))>>
    ELSE RoundDrop(m, e, BitLen(m) - MantBits)

\* the double nearest to m * 2^e
Fl(m, e) ==
    IF m = 0 THEN <<0, 0>>
    ELSE IF m > 0 THEN RoundPos(m, e)
    ELSE <<-(RoundPos(-m, e)[1]), RoundPos(-m, e)[2]>>

FNeg(a) == <<-(a[1]), a[2]>>

\* a + b
FAdd(a, b) ==
    IF a[1] = 0 THEN b
    ELSE IF b[1] = 0 THEN a
    ELSE IF a[2] - b[2] > MantBits + 2 THEN a
    ELSE IF b[2] - a[2] > MantBits + 2 THEN b
    ELSE IF a[2] <= b[2] THEN Fl(a[1] + b[1] * Pow2(b[2] - a[2]), a[2])
    ELSE Fl(a[1] * Pow2(a[2] - b[2]) + b[1], b[2])

\* a - b
FSub(a, b) == FAdd(a, FNeg(b))

\* a * b
FMul(a, b) == Fl(a[1] * b[1], a[2] + b[2])

\* a / b for b # 0: the quotient of the mantissas with two guard bits and a
\* sticky bit
FDiv(a, b) ==
    IF a[1] = 0 THEN <<0, 0>>
    ELSE LET n == Abs(a[1]) * Pow2(MantBits + 2)
             q == n \div Abs(b[1])
             st == IF n % Abs(b[1]) = 0 THEN 0 ELSE 1
             sg == IF (a[1] < 0) = (b[1] < 0) THEN 1 ELSE -1
         IN Fl(sg * (2 * q + st), a[2] - b[2] - (MantBits + 3))

\* a < b
FLt(a, b) == FSub(a, b)[1] < 0

\* the double of an integer, and of the decimal literal num / den
FInt(n) == Fl(n, 0)
FDec(num, den) == FDiv(FInt(num), FInt(den))

FZero == <<0, 0>>
FOne == FInt(1)

(***************************************************************************)
(* octdata_t with its fields as doubles (octdata.h, octdata.cpp)           *)
(***************************************************************************)

\* octdata_t::octdata_t(): no sample, no room, not carved
EmptyPayload ==
    [count |-> 0, total_weight |-> FZero, prob_sum |-> FZero,
     prob_sum_sq |-> FZero, surface_sum |-> FZero, corner_sum |-> FZero,
     planar_sum |-> FZero, fp_room |-> -1, is_carved |-> FALSE]

\* octdata_t::add_sample: one more sample of weight w
add_sample(d, w, prob, surf, corner, planar) ==
    [d EXCEPT !.count = @ + 1,
              !.total_weight = FAdd(@, w),
              !.prob_sum = FAdd(@, FMul(w, prob)),
              !.prob_sum_sq = FAdd(@, FMul(FMul(w, prob), prob)),
              !.surface_sum = FAdd(@, FMul(w, surf)),
              !.corner_sum = FAdd(@, FMul(w, corner)),
              !.planar_sum = FAdd(@, FMul(w, planar))]

\* a merge that keeps the room of the object merged into
merge_keep_room(x, p) ==
    [x EXCEPT !.count = @ + p.count,
              !.total_weight = FAdd(@, p.total_weight),
              !.prob_sum = FAdd(@, p.prob_sum),
              !.prob_sum_sq = FAdd(@, p.prob_sum_sq),
              !.surface_sum = FAdd(@, p.surface_sum),
              !.corner_sum = FAdd(@, p.corner_sum),
              !.planar_sum = FAdd(@, p.planar_sum),
              !.is_carved = @ \/ p.is_carved]

\* octdata_t::merge: x.merge(p) adds the count and the sums of p, takes the
\* room of p when p has one, and ors the carved flags
merge(x, p) ==
    [x EXCEPT !.count = @ + p.count,
              !.total_weight = FAdd(@, p.total_weight),
              !.prob_sum = FAdd(@, p.prob_sum),
              !.prob_sum_sq = FAdd(@, p.prob_sum_sq),
              !.surface_sum = FAdd(@, p.surface_sum),
              !.corner_sum = FAdd(@, p.corner_sum),
              !.planar_sum = FAdd(@, p.planar_sum),
              !.fp_room = IF p.fp_room >= 0 THEN p.fp_room ELSE @,
              !.is_carved = @ \/ p.is_carved]

\* octdata_t::set_fp_room
set_fp_room(d, r) == [d EXCEPT !.fp_room = r]

\* the quotient of the unsigned count c by n, rounded down (up = FALSE) or
\* up (up = TRUE)
count_div(c, n, up) == IF up THEN (c + n - 1) \div n ELSE c \div n

\* octdata_t::subdivide: every additive field is scaled by 1 / n
subdivide(d, n, up) ==
    [d EXCEPT !.count = count_div(@, n, up),
              !.total_weight = FDiv(@, FInt(n)),
              !.prob_sum = FDiv(@, FInt(n)),
              !.prob_sum_sq = FDiv(@, FInt(n)),
              !.surface_sum = FDiv(@, FInt(n)),
              !.corner_sum = FDiv(@, FInt(n)),
              !.planar_sum = FDiv(@, FInt(n))]

\* octdata_t::get_probability, in doubles
dbl_get_probability(d) ==
    IF d.count > 0 /\ FLt(FZero, d.total_weight)
    THEN FDiv(d.prob_sum, d.total_weight)
    ELSE FDec(1, 2)

\* octdata_t::get_uncertainty, in doubles
dbl_get_uncertainty(d) ==
    IF d.count <= 1 \/ d.total_weight[1] = 0 THEN FOne
    ELSE FSub(FDiv(d.prob_sum_sq, d.total_weight),
              FMul(FDiv(d.prob_sum, d.total_weight),
                   FDiv(d.prob_sum, d.total_weight)))

\* octdata_t::is_interior, in doubles
dbl_is_interior(d) == FLt(FDec(1, 2), dbl_get_probability(d))

\* a variant of is_object that asks for no room
is_object_no_room(d) == ~dbl_is_interior(d) /\ d.fp_room < 0

\* octdata_t::is_object
is_object(d) == ~(dbl_is_interior(d) \/ d.fp_room < 0)

\* octdata_t::flip: the sums are replaced by those of the probability
\* 1 - p with the variance at its maximum
dbl_flip(d) ==
    [d EXCEPT !.prob_sum = FMul(FSub(FOne, dbl_get_probability(d)), d.total_weight),
              !.prob_sum_sq =
                  FMul(FAdd(FMul(FSub(FOne, dbl_get_probability(d)),
                                 FSub(FOne, dbl_get_probability(d))), FOne),
                       d.total_weight)]

(***************************************************************************)
(* Calls on two octdata_t objects                                          *)
(***************************************************************************)

\* the largest number of calls made on the two objects
MaxOps == 4

\* the weights, probabilities and priors of the samples, the rooms and the
\* divisors of subdivide
Weights == {FInt(1)}
Probs == {FDec(1, 10), FDec(9, 10)}
Priors == {FZero, FDec(1, 2)}
Rooms == {0, 1}
Divisors == {2, 8}

\* n clones of d, each subdivided by n, merged into the first of them
RECURSIVE merge_clones(_, _, _)
merge_clones(b, part, k) ==
    IF k = 0 THEN b ELSE merge_clones(merge(b, part), part, k - 1)

reassemble(d, n, up) == merge_clones(subdivide(d, n, up), subdivide(d, n, up), n - 1)

\* X.add_sample or Y.add_sample
PayAddSample ==
    /\ pc = "octdata"
    /\ nops < MaxOps
    /\ \E w \in Weights : \E p \in Probs : \E g \in Priors :
          \/ /\ X' = add_sample(X, w, p, g, g, g)
             /\ Y' = Y
             /\ last' = [op |-> "add_sample", x0 |-> X, y0 |-> Y, n |-> 0]
          \/ /\ Y' = add_sample(Y, w, p, g, g, g)
             /\ X' = X
             /\ last' = [op |-> "add_sample", x0 |-> X, y0 |-> Y, n |-> 0]
    /\ nops' = nops + 1
    /\ UNCHANGED <<treeVars, pc, ret, topoVars, outlVars, bndVars, regVars, meshVars, expVars>>

\* X.set_fp_room or Y.set_fp_room
PaySetRoom ==
    /\ pc = "octdata"
    /\ nops < MaxOps
    /\ \E r \in Rooms :
          \/ X' = set_fp_room(X, r) /\ Y' = Y
          \/ Y' = set_fp_room(Y, r) /\ X' = X
    /\ last' = [op |-> "set_fp_room", x0 |-> X, y0 |-> Y, n |-> 0]
    /\ nops' = nops + 1
    /\ UNCHANGED <<treeVars, pc, ret, topoVars, outlVars, bndVars, regVars, meshVars, expVars>>

\* X.merge(Y)
PayMerge ==
    /\ pc = "octdata"
    /\ nops < MaxOps
    /\ X' = merge(X, Y)
    /\ Y' = Y
    /\ last' = [op |-> "merge", x0 |-> X, y0 |-> Y, n |-> 0]
    /\ nops' = nops + 1
    /\ UNCHANGED <<treeVars, pc, ret, topoVars, outlVars, bndVars, regVars, meshVars, expVars>>

\* X.subdivide(n); the quotient of the count is rounded either way
PaySubdivide ==
    /\ pc = "octdata"
    /\ nops < MaxOps
    /\ \E n \in Divisors : \E up \in BOOLEAN :
          /\ X' = subdivide(X, n, up)
          /\ last' = [op |-> "subdivide", x0 |-> X, y0 |-> Y, n |-> n]
    /\ Y' = Y
    /\ nops' = nops + 1
    /\ UNCHANGED <<treeVars, pc, ret, topoVars, outlVars, bndVars, regVars, meshVars, expVars>>

\* X.flip()
PayFlip ==
    /\ pc = "octdata"
    /\ nops < MaxOps
    /\ X' = dbl_flip(X)
    /\ Y' = Y
    /\ last' = [op |-> "flip", x0 |-> X, y0 |-> Y, n |-> 0]
    /\ nops' = nops + 1
    /\ UNCHANGED <<treeVars, pc, ret, topoVars, outlVars, bndVars, regVars, meshVars, expVars>>

\* the example of subdivide's documentation: X is replaced by the merge of n
\* clones of it, each subdivided by n
PayReassemble ==
    /\ pc = "octdata"
    /\ nops < MaxOps
    /\ \E n \in Divisors : \E up \in BOOLEAN :
          /\ X' = reassemble(X, n, up)
          /\ last' = [op |-> "reassemble", x0 |-> X, y0 |-> Y, n |-> n]
    /\ Y' = Y
    /\ nops' = nops + 1
    /\ UNCHANGED <<treeVars, pc, ret, topoVars, outlVars, bndVars, regVars, meshVars, expVars>>

\* two empty objects, no tree
InitData ==
    /\ tree = {Root}
    /\ order = "pre"
    /\ data = << >>
    /\ data0 = << >>
    /\ pc = "octdata"
    /\ ret = 0
    /\ neighs = << >>
    /\ stack = << >>
    /\ visited = {}
    /\ to_remove = {}
    /\ OutliersIdle
    /\ BoundaryEmpty
    /\ RegionsEmpty
    /\ MesherIdle
    /\ ExporterIdle
    /\ X = EmptyPayload
    /\ Y = EmptyPayload
    /\ nops = 0
    /\ last = << >>

NextData ==
    \/ PayAddSample
    \/ PaySetRoom
    \/ PayMerge
    \/ PaySubdivide
    \/ PayFlip
    \/ PayReassemble

SpecData == InitData /\ [][NextData]_vars

\* C11 as stated: X.merge(Y) leaves X with the count, the sums, the room and
\* the carved flag that Y holds after Y.merge(X), also when both objects
\* have a room and the rooms differ.
C11_AsStated ==
    (last # << >> /\ last.op = "merge") => X = merge(last.y0, last.x0)

\* the two orders of a merge agree on the count, the sums and the carved
\* flag, and on the room unless both objects have one and the two differ
MergeCommutesButRoom ==
    (last # << >> /\ last.op = "merge") =>
        /\ [X EXCEPT !.fp_room = -1] = [merge(last.y0, last.x0) EXCEPT !.fp_room = -1]
        /\ (last.x0.fp_room < 0 \/ last.y0.fp_room < 0
              \/ last.x0.fp_room = last.y0.fp_room)
              => X.fp_room = merge(last.y0, last.x0).fp_room

\* C12 as stated: the merge of n clones of L, each subdivided by n, equals L
\* in the count, the total weight, every sum, the room and the carved flag,
\* and get_probability, get_uncertainty and is_interior agree with L's.
C12_AsStated ==
    (last # << >> /\ last.op = "reassemble") =>
        /\ X = last.x0
        /\ dbl_get_probability(X) = dbl_get_probability(last.x0)
        /\ dbl_get_uncertainty(X) = dbl_get_uncertainty(last.x0)
        /\ dbl_is_interior(X) = dbl_is_interior(last.x0)

\* the count is restored when the divisor divides it, and the room and the
\* carved flag always
ReassembleKeepsRoom ==
    (last # << >> /\ last.op = "reassemble") =>
        /\ X.fp_room = last.x0.fp_room
        /\ X.is_carved = last.x0.is_carved
        /\ last.x0.count % last.n = 0 => X.count = last.x0.count

\* with the divisor 2 the total weight and the sums are restored
ReassembleByTwoKeepsSums ==
    (last # << >> /\ last.op = "reassemble" /\ last.n = 2) =>
        [X EXCEPT !.count = 0] = [last.x0 EXCEPT !.count = 0]

\* no order of rounding the count restores a count the divisor does not
\* divide
ReassembleLosesCount ==
    (last # << >> /\ last.op = "reassemble" /\ last.x0.count % last.n # 0) =>
        X.count # last.x0.count

\* 0 <= a <= 1
InUnit(a) == ~FLt(a, FZero) /\ ~FLt(FOne, a)

\* C13 as stated: for every object with count > 0 reached from an empty one
\* by add_sample, merge, subdivide and flip, get_probability() and
\* get_uncertainty() lie in [0, 1].
C13_AsStated ==
    (X # << >> /\ X.count > 0) =>
        InUnit(dbl_get_probability(X)) /\ InUnit(dbl_get_uncertainty(X))

\* the probability alone
ProbabilityInUnit == (X # << >> /\ X.count > 0) => InUnit(dbl_get_probability(X))

\* the uncertainty of objects that hold samples only
SamplesOnly == X # << >> /\ X.count = nops /\ Y = EmptyPayload

UncertaintyOfSamples == (SamplesOnly /\ X.count > 0) => InUnit(dbl_get_uncertainty(X))

\* C14: is_object() holds exactly when the payload is not interior and has
\* a room of the floorplan (fp_room >= 0).
C14_IsObject ==
    X # << >> =>
        /\ is_object(X) = (~dbl_is_interior(X) /\ X.fp_room >= 0)
        /\ is_object(Y) = (~dbl_is_interior(Y) /\ Y.fp_room >= 0)

\* an observed exterior payload with a room, which is an object, beside an
\* observed exterior payload without a room, which is not
C14_Witness ==
    /\ X # << >>
    /\ X.count > 0 /\ ~dbl_is_interior(X) /\ X.fp_room >= 0 /\ is_object(X)
    /\ Y.count > 0 /\ ~dbl_is_interior(Y) /\ Y.fp_room < 0 /\ ~is_object(Y)

\* C14 as stated: is_object() holds exactly when the payload is not interior
\* and fp_room < 0
C14_AsStated ==
    X # << >> => is_object(X) = (~dbl_is_interior(X) /\ X.fp_room < 0)

(***************************************************************************)
(* The settings of region_mesher::mesher_t (region_mesher.cpp)             *)
(***************************************************************************)

\* the largest number of calls of import and init in a run
MaxImports == 2

\* the values the documentation of the options gives
DocumentedSettings == [DefaultSettings EXCEPT !.coalesce_planethresh = <<1, 2>>]

PropNames == DOMAIN DefaultSettings

\* the values a settings file gives a property (use_isosurface_pos is read
\* as an unsigned integer)
PropValues(p) ==
    IF p = "use_isosurface_pos" THEN {<<1, 1>>}
    ELSE IF p = "node_outlierthresh" THEN {<<3, 5>>}
    ELSE IF p = "coalesce_planethresh" THEN {<<1, 2>>, <<3, 10>>}
    ELSE {<<1, 2>>}

\* the maps a settings file can hold for the properties S
PropMaps(S) ==
    {g \in [S -> UNION {PropValues(p) : p \in PropNames}] :
        \A p \in S : g[p] \in PropValues(p)}

\* a settings file: its name, whether it can be read, the properties it
\* holds
SettingsFiles ==
    {[name |-> "missing.xml", readable |-> FALSE, props |-> << >>]}
      \cup {[name |-> "settings.xml", readable |-> TRUE, props |-> f] :
               f \in UNION {PropMaps(S) : S \in SUBSET PropNames}}

\* the empty file name
NoFile == [name |-> "", readable |-> FALSE, props |-> << >>]

\* the value import stores for property p of a readable file
stored(cur, xml, p) ==
    IF p \notin DOMAIN xml.props THEN cur[p]
    ELSE IF p = "use_isosurface_pos" THEN xml.props[p][1] # 0
    ELSE xml.props[p]

\* an import that sets the documented values for the empty file name
import_documented(cur, xml) ==
    IF xml.name = "" THEN [ret |-> 0, settings |-> DocumentedSettings]
    ELSE IF ~xml.readable THEN [ret |-> -1, settings |-> cur]
    ELSE [ret |-> 0,
          settings |-> [p \in PropNames |-> stored(cur, xml, p)]]

\* mesher_t::import
import(cur, xml) ==
    IF xml.name = "" THEN [ret |-> 0, settings |-> DefaultSettings]
    ELSE IF ~xml.readable THEN [ret |-> -1, settings |-> cur]
    ELSE [ret |-> 0,
          settings |-> [p \in PropNames |-> stored(cur, xml, p)]]

\* a call of mesher_t::import
MesherImport ==
    /\ pc = "settings"
    /\ imported.n < MaxImports
    /\ \E xml \in SettingsFiles \cup {NoFile} :
          /\ settings' = import(settings, xml).settings
          /\ ret' = import(settings, xml).ret
          /\ imported' = [imported EXCEPT
                             !.xml = IF import(settings, xml).ret = 0 THEN xml.name ELSE @,
                             !.n = @ + 1]
    /\ UNCHANGED <<treeVars, pc, topoVars, outlVars, bndVars, regVars, payVars, expVars,
                   vertices, mesh_regions, vert_inds, mesh>>

\* the thresholds given to planar_region_graph_t::init
GraphThresholds == {<<0, 1>>, <<1, 2>>, <<1, 1>>, <<2, 1>>}

\* a call of planar_region_graph_t::init
GraphInit ==
    /\ pc = "settings"
    /\ imported.n < MaxImports
    /\ \E pt \in GraphThresholds : \E dt \in GraphThresholds :
          /\ planarity_threshold' = pt
          /\ distance_threshold' = dt
          /\ imported' = [imported EXCEPT !.graph = "init", !.n = @ + 1]
    /\ UNCHANGED <<treeVars, pc, ret, topoVars, outlVars, bndVars, payVars, expVars,
                   useiso, regions, seeds, pq, merged, approx,
                   settings, vertices, mesh_regions, vert_inds, mesh>>

\* a mesher_t and a planar_region_graph_t after their constructors
InitSettings ==
    /\ tree = {Root}
    /\ order = "pre"
    /\ data = << >>
    /\ data0 = << >>
    /\ pc = "settings"
    /\ ret = 0
    /\ neighs = << >>
    /\ stack = << >>
    /\ visited = {}
    /\ to_remove = {}
    /\ OutliersIdle
    /\ BoundaryEmpty
    /\ RegionsEmpty
    /\ PayloadsIdle
    /\ MesherIdle
    /\ ExporterIdle

NextSettings ==
    \/ MesherImport
    \/ GraphInit

SpecSettings == InitSettings /\ [][NextSettings]_vars

\* C17: a mesher_t that has imported the empty file name has
\* coalesce_distthresh 2.0, coalesce_planethresh 0.0, min_singular_value 0.1
\* and max_colinearity 0.99, and a default-constructed
\* planar_region_graph_t has distance threshold 1.0 and planarity threshold
\* 0.5.
C17_Defaults ==
    /\ imported.xml = "" =>
          /\ settings.coalesce_distthresh = <<2, 1>>
          /\ settings.coalesce_planethresh = <<0, 1>>
          /\ settings.min_singular_value = <<1, 10>>
          /\ settings.max_colinearity = <<99, 100>>
    /\ imported.graph = "default" =>
          /\ distance_threshold = <<1, 1>>
          /\ planarity_threshold = <<1, 2>>

\* the empty file name has been imported after a file that set the
\* planarity threshold, beside a default-constructed graph
C17_Witness ==
    /\ imported.xml = ""
    /\ imported.n = 2
    /\ imported.graph = "default"
    /\ settings = DefaultSettings

\* C17 as stated: coalesce_distthresh 2.0, coalesce_planethresh 0.5,
\* min_singular_value 0.1 and max_colinearity 0.99 without a settings file,
\* and distance threshold 2.0 and planarity threshold 0.5 in a
\* default-constructed planar_region_graph_t
C17_AsStated ==
    /\ imported.xml = "" =>
          /\ settings.coalesce_distthresh = <<2, 1>>
          /\ settings.coalesce_planethresh = <<1, 2>>
          /\ settings.min_singular_value = <<1, 10>>
          /\ settings.max_colinearity = <<99, 100>>
    /\ imported.graph = "default" =>
          /\ distance_threshold = <<2, 1>>
          /\ planarity_threshold = <<1, 2>>

(***************************************************************************)
(* region_mesher::mesher_t: init, compute_vertex_pos, compute_mesh         *)
(* (region_mesher.cpp). A corner is modelled by its position: corners of   *)
(* adjacent leaves at the same position are one corner.                    *)
(***************************************************************************)

NUM_CORNERS_PER_SQUARE == 4

\* corner_t::set(tree, f, ci): corner ci of the square face fc
corner_set(fc, ci) ==
    LET a == FaceAxis(fc.direction)
        u == (a % 3) + 1
        v == (u % 3) + 1
        hw == face_get_halfwidth(fc)
        c == face_get_center(fc)
        su == IF ci \in {0, 3} THEN -1 ELSE 1
        sv == IF ci \in {0, 1} THEN -1 ELSE 1
    IN [k \in 1 .. 3 |-> c[k] + (IF k = u THEN su * hw ELSE IF k = v THEN sv * hw ELSE 0)]

\* corner_t::get_position: a vector of doubles
get_position(c) == [k \in 1 .. 3 |-> <<c[k], 1>>]

\* corner_t::operator<: a strict total order of the corners
CornerLess(a, b) ==
    \/ a[1] < b[1]
    \/ a[1] = b[1] /\ a[2] < b[2]
    \/ a[1] = b[1] /\ a[2] = b[2] /\ a[3] < b[3]

\* the corners of a set, in the order of the corners
RECURSIVE CornerSeq(_)
CornerSeq(S) ==
    IF S = {} THEN << >>
    ELSE LET c == CHOOSE a \in S : \A b \in S \ {a} : CornerLess(a, b)
         IN <<c>> \o CornerSeq(S \ {c})

\* the faces of a set, in the order of the faces
RECURSIVE FaceSeq(_, _)
FaceSeq(S, ord) ==
    IF S = {} THEN << >>
    ELSE LET f == FirstFace(S, ord)
         IN <<f>> \o FaceSeq(S \ {f}, ord)

\* the faces init visits, in the order of its two outer loops
RECURSIVE FacesOfRegions(_, _, _)
FacesOfRegions(regs, ss, ord) ==
    IF ss = << >> THEN << >>
    ELSE FaceSeq(regs[Head(ss)].region, ord) \o FacesOfRegions(regs, Tail(ss), ord)

\* corner_map_t::add(tree, boundary) and get_faces_for(c): the boundary
\* faces that have c as one of their four corners
get_faces_for(fcs, c) ==
    {f \in DOMAIN fcs : \E ci \in 0 .. NUM_CORNERS_PER_SQUARE - 1 : corner_set(f, ci) = c}

\* planar_region_graph_t::lookup_face: the seed of the region of face f, or
\* NoFace for end()
lookup_face(regs, sds, f) ==
    IF f \in DOMAIN sds /\ sds[f] \in DOMAIN regs THEN sds[f] ELSE NoFace

\* a variant of dont_care that keeps every corner
dont_care_never(vinfo) == FALSE

\* init: vinfo.size() < 2
dont_care(vinfo) == Cardinality(vinfo) < 2

\* init: the body of the innermost loop for the corner c; st holds the
\* vertices and the return value
init_corner(fcs, regs, sds, st, c) ==
    IF st.ret # 0 THEN st
    ELSE With({lookup_face(regs, sds, nf) : nf \in get_faces_for(fcs, c)}, LAMBDA vinfo :
           IF NoFace \in vinfo THEN [st EXCEPT !.ret = -2]
           ELSE IF dont_care(vinfo) THEN st
           ELSE IF c \in DOMAIN st.vertices
           THEN [st EXCEPT !.vertices[c].regions = @ \cup vinfo]
           ELSE [st EXCEPT !.vertices =
                    (c :> [position |-> get_position(c), regions |-> vinfo]) @@ @])

\* init: the loop over the four corners of face f
init_face(fcs, regs, sds, st, f) ==
    init_corner(fcs, regs, sds,
        init_corner(fcs, regs, sds,
            init_corner(fcs, regs, sds,
                init_corner(fcs, regs, sds, st, corner_set(f, 0)),
                corner_set(f, 1)),
            corner_set(f, 2)),
        corner_set(f, 3))

\* init: the first loops, over the faces todo of the regions
RECURSIVE init_vertices(_, _, _, _, _)
init_vertices(fcs, regs, sds, todo, st) ==
    IF todo = << >> THEN st
    ELSE With(init_face(fcs, regs, sds, st, Head(todo)), LAMBDA nxt :
            init_vertices(fcs, regs, sds, Tail(todo), nxt))

\* the plane of region s: floodfill stores the centre and the normal of the
\* seed; merge_regions stores the plane fitted to the faces of two regions,
\* which is not computed here
region_plane(regs, s) ==
    IF \A f \in regs[s].region : f.direction = s.direction
    THEN [fitted |-> FALSE, normal |-> cube_face_normals(s.direction),
          offset |-> <<Dot(cube_face_normals(s.direction), face_get_center(s)), 1>>]
    ELSE [fitted |-> TRUE, normal |-> <<0, 0, 0>>, offset |-> <<0, 1>>]

\* the position of a vertex on a fitted plane
Unfitted == << >>

\* the value of a division of zero by zero
NotANumber == <<0, 0>>

\* the sum of normal[k] * offset over the planes pl[s], s in S
RECURSIVE SumOffsets(_, _, _)
SumOffsets(pl, S, k) ==
    IF S = {} THEN <<0, 1>>
    ELSE LET s == CHOOSE x \in S : TRUE
         IN FracAdd(FracMul(<<pl[s].normal[k], 1>>, pl[s].offset),
                    SumOffsets(pl, S \ {s}, k))

\* a variant of compute_vertex_pos_axes that adds nothing along the kernel
compute_vertex_pos_no_kernel(pl, position, msv) ==
    LET rows(k) == {s \in DOMAIN pl : pl[s].normal[k] # 0}
        count(k) == Cardinality(rows(k))
    IN [k \in 1 .. 3 |->
           IF count(k) = 0 THEN <<0, 1>>
           ELSE FracMul(SumOffsets(pl, rows(k), k), <<1, count(k)>>)]

\* compute_vertex_pos for planes pl whose normals are along the coordinate
\* axes. The rows of N are the normals, so N^T N is diagonal with the number
\* of planes along each axis: the right singular vectors are the axes, the
\* singular value of axis k is the square root of count(k), and P.u / s is
\* the mean of normal[k] * offset over the planes along axis k. s < thresh
\* is compared in squares.
compute_vertex_pos_axes(pl, position, msv) ==
    LET rows(k) == {s \in DOMAIN pl : pl[s].normal[k] # 0}
        count(k) == Cardinality(rows(k))
        top == Max(count(1), Max(count(2), count(3)))
        in_kernel(k) == count(k) * msv[2] * msv[2] < msv[1] * msv[1] * top
    IN [k \in 1 .. 3 |->
           IF in_kernel(k) THEN position[k]
           ELSE IF count(k) = 0 THEN NotANumber
           ELSE FracMul(SumOffsets(pl, rows(k), k), <<1, count(k)>>)]

\* mesher_t::compute_vertex_pos: the position it stores
compute_vertex_pos(pl, position, msv) ==
    IF \E s \in DOMAIN pl : pl[s].fitted THEN Unfitted
    ELSE compute_vertex_pos_axes(pl, position, msv)

\* init: the second loop, over the vertices todo; st holds the vertices, the
\* vertex sets of the regions and the return value
RECURSIVE init_regions(_, _, _, _)
init_regions(regs, msv, todo, st) ==
    IF todo = << >> \/ st.ret # 0 THEN st
    ELSE With(Head(todo), LAMBDA c :
           IF \E s \in st.vertices[c].regions : s \notin DOMAIN st.regions
           THEN [st EXCEPT !.ret = -3]
           ELSE init_regions(regs, msv, Tail(todo),
                  [st EXCEPT
                     !.regions = [s \in DOMAIN @ |->
                                     IF s \in st.vertices[c].regions
                                     THEN @[s] \cup {c} ELSE @[s]],
                     !.vertices[c].position =
                         compute_vertex_pos(
                             [s \in st.vertices[c].regions |-> region_plane(regs, s)],
                             @, msv)]))

\* mesher_t::init(tree, region_graph, corner_map): the vertices, the vertex
\* sets of the regions and the return value
init(fcs, regs, sds, ord, msv) ==
    With(init_vertices(fcs, regs, sds,
                       FacesOfRegions(regs, FaceSeq(DOMAIN regs, ord), ord),
                       [vertices |-> << >>, ret |-> 0]),
         LAMBDA st :
            IF st.ret # 0
            THEN [vertices |-> st.vertices, regions |-> [s \in DOMAIN regs |-> {}],
                  ret |-> st.ret]
            ELSE init_regions(regs, msv, CornerSeq(DOMAIN st.vertices),
                              [vertices |-> st.vertices,
                               regions |-> [s \in DOMAIN regs |-> {}],
                               ret |-> 0]))

\* the call of mesher_t::init on the region graph and the corner map of the
\* boundary
MesherInit ==
    /\ pc \in {"regions_populated", "coalesced"}
    /\ LET out == init(faces, regions, seeds, order, settings.min_singular_value)
       IN /\ vertices' = out.vertices
          /\ mesh_regions' = out.regions
          /\ ret' = out.ret
          /\ pc' = IF out.ret = 0 THEN "mesher_init" ELSE "failed"
    /\ UNCHANGED <<treeVars, topoVars, outlVars, bndVars, regVars, payVars, expVars,
                   settings, imported, vert_inds, mesh>>

\* a variant of next_index that counts from one
next_index_from_one(vi) == Cardinality(DOMAIN vi) + 1

\* compute_mesh: vert_inds.size(), the index given to a new vertex
next_index(vi) == Cardinality(DOMAIN vi)

\* compute_mesh: the first loops, over the corners todo of the regions; st
\* holds vert_inds, the vertices of the mesh and the return value
RECURSIVE add_vertices(_, _, _)
add_vertices(verts, todo, st) ==
    IF todo = << >> \/ st.ret # 0 THEN st
    ELSE With(Head(todo), LAMBDA c :
           IF c \in DOMAIN st.vert_inds THEN add_vertices(verts, Tail(todo), st)
           ELSE IF c \notin DOMAIN verts
           THEN [st EXCEPT !.vert_inds = (c :> next_index(@)) @@ @, !.ret = -1]
           ELSE add_vertices(verts, Tail(todo),
                    [st EXCEPT !.vert_inds = (c :> next_index(@)) @@ @,
                               !.mesh = Append(@, verts[c].position)]))

\* the corners compute_mesh visits, in the order of its two loops
RECURSIVE CornersOfMesh(_, _)
CornersOfMesh(mregs, ss) ==
    IF ss = << >> THEN << >>
    ELSE CornerSeq(mregs[Head(ss)]) \o CornersOfMesh(mregs, Tail(ss))

\* the meshes compute_mesh is given: an empty one, and one of one vertex
GivenMeshes == {<< >>, <<get_position(<<0, 0, 0>>)>>}

\* the call of mesher_t::compute_mesh(mesh, tree): the vertices it adds to
\* the mesh. The triangles of region_isostuffer_t are not part of the
\* model; its calls return 0 or an error
ComputeMesh ==
    /\ pc = "mesher_init"
    /\ \E given \in GivenMeshes : \E isostuff \in {0, -2} :
          LET out == add_vertices(vertices,
                                  CornersOfMesh(mesh_regions,
                                                FaceSeq(DOMAIN mesh_regions, order)),
                                  [vert_inds |-> << >>, mesh |-> given, ret |-> 0])
          IN /\ vert_inds' = out.vert_inds
             /\ mesh' = out.mesh
             /\ last' = [op |-> "compute_mesh", mesh |-> given]
             /\ ret' = IF out.ret # 0 THEN out.ret ELSE isostuff
             /\ pc' = IF out.ret = 0 /\ isostuff = 0 THEN "meshed" ELSE "failed"
    /\ UNCHANGED <<treeVars, topoVars, outlVars, bndVars, regVars, X, Y, nops, expVars,
                   settings, imported, vertices, mesh_regions>>

(***************************************************************************)
(* The export of small carved trees (tree_exporter::export_all): outliers, *)
(* boundary, regions, mesher                                               *)
(***************************************************************************)

\* a tree with a leaf that remove_outliers flips: the root has the children
\* 0 and 1, which share a face, and child 6, which shares no face with
\* them; child 0 is subdivided into eight leaves
OutlierTree == {Root, <<0>>, <<1>>, <<6>>} \cup {<<0, i>> : i \in ChildIdx}

\* its interior leaves: <<0, 1>> has three exterior siblings and the
\* exterior leaf <<1>> as neighbours, and <<6>> has no neighbour
OutlierInterior == {<<0, 1>>, <<6>>}

\* the payloads of the leaves of an exported tree: observed once, with
\* probability 0.9 inside room 0 or with probability 0.1 outside the rooms
ExportPayloads == {OctData(1, 9, 0), OctData(1, 1, -1)}

\* no leaf of OutlierTree is in a room
OutlierData ==
    [n \in Leaves(OutlierTree) |->
        IF n \in OutlierInterior THEN OctData(1, 9, -1) ELSE OctData(1, 1, -1)]

\* the settings of the mesher of export_all after import: the defaults, or
\* those of a file that sets the outlier threshold to 0.6
ExportSettings ==
    {DefaultSettings, [DefaultSettings EXCEPT !.node_outlierthresh = <<3, 5>>]}

\* export_all: top.remove_outliers(region_mesher.get_node_outlierthresh()),
\* the threshold in hundredths
ExportRemoveOutliers ==
    /\ pc = "done"
    /\ OutliersCalled((settings.node_outlierthresh[1] * 100)
                        \div settings.node_outlierthresh[2])
    /\ ret' = 0
    /\ hist' = NoHist
    /\ data0' = data
    /\ UNCHANGED <<extVars, tree, order, data, topoVars, bndVars, regVars>>

\* export_all: room_boundary.populate(top, SEG_ROOM) up to
\* populate_face_linkages. The object boundary and the dense mesh of
\* face_mesher_t, which export_all builds before, are objects of their own
ExportPopulateFaces ==
    /\ pc = "outliers_done"
    /\ FacesPopulated(SEG_ROOM)
    /\ UNCHANGED <<extVars, treeVars, topoVars, outlVars, regVars>>

\* a carved tree whose topology has been built, and the objects of
\* export_all after their constructors and the import of the settings
InitExport ==
    /\ tree \in {t \in Trees : Cardinality(Leaves(t)) <= MaxRegionLeaves} \cup {OutlierTree}
    /\ order = "pre"
    /\ neighs = TopoOf(tree, order)
    /\ IF tree = OutlierTree THEN data = OutlierData
       ELSE data \in [Leaves(tree) -> ExportPayloads]
    /\ data0 = data
    /\ pc = "done"
    /\ ret = 0
    /\ stack = << >>
    /\ visited = DOMAIN neighs
    /\ to_remove = {}
    /\ OutliersIdle
    /\ PayloadsIdle
    /\ ExporterIdle
    /\ settings \in (IF tree = OutlierTree THEN ExportSettings \ {DefaultSettings}
                     ELSE ExportSettings)
    /\ imported = [Constructed EXCEPT !.xml = IF settings = DefaultSettings THEN ""
                                               ELSE "settings.xml",
                                      !.n = 1]
    /\ vertices = << >>
    /\ mesh_regions = << >>
    /\ vert_inds = << >>
    /\ mesh = << >>
    /\ BoundaryEmpty
    /\ RegionsEmpty

NextExport ==
    \/ ExportRemoveOutliers
    \/ OutliersIter
    \/ OutliersReturn
    \/ ExportPopulateFaces
    \/ PopulateFaceLinkages
    \/ RegionsPopulate
    \/ CoalesceStart
    \/ CoalesceStep
    \/ CoalesceReturn
    \/ MesherInit
    \/ ComputeMesh

SpecExport == InitExport /\ [][NextExport]_vars

\* the corners of the boundary faces
BoundaryCorners ==
    {corner_set(f, ci) : f \in DOMAIN faces, ci \in 0 .. NUM_CORNERS_PER_SQUARE - 1}

\* the regions of the boundary faces that have c as a corner
RegionsAt(c) == {seeds[f] : f \in get_faces_for(faces, c)}

\* init has returned 0
MesherBuilt == pc \in {"mesher_init", "meshed"}

\* C15: after init the corners in the vertex map are the corners of boundary
\* faces whose incident boundary faces lie in two regions or more; the
\* regions stored with a vertex are the regions of all the faces incident
\* on it; and the vertex set of a region holds the vertices that have the
\* region in their set, and no other corner.
C15_VertexMap ==
    MesherBuilt =>
        /\ DOMAIN vertices = {c \in BoundaryCorners : Cardinality(RegionsAt(c)) >= 2}
        /\ \A c \in DOMAIN vertices : vertices[c].regions = RegionsAt(c)
        /\ DOMAIN mesh_regions = DOMAIN regions
        /\ \A s \in DOMAIN mesh_regions :
              mesh_regions[s] = {c \in DOMAIN vertices : s \in RegionsAt(c)}

\* init has returned on coalesced regions with a vertex on exactly two
\* regions, and some corner of the boundary lies in one region only
C15_Witness ==
    /\ pc = "mesher_init"
    /\ merged # << >>
    /\ \E c \in DOMAIN vertices : Cardinality(vertices[c].regions) = 2
    /\ \E c \in BoundaryCorners : Cardinality(RegionsAt(c)) = 1

\* compute_mesh has added the vertices to a mesh that was empty
MeshFromEmpty == last # << >> /\ last.mesh = << >> /\ ret \in {0, -2}

\* C19: after compute_mesh on an empty mesh every corner of the vertex map
\* has one index in vert_inds, the one map given to the triangulation of
\* every region, which holds every corner of the vertex set of every
\* region; the indices are 0 .. n-1 for n vertices; and vertex k of the
\* mesh is the position stored for the corner of index k.
C19_VertexIndices ==
    MeshFromEmpty =>
        /\ DOMAIN vert_inds = DOMAIN vertices
        /\ \A s \in DOMAIN mesh_regions : mesh_regions[s] \subseteq DOMAIN vert_inds
        /\ {vert_inds[c] : c \in DOMAIN vert_inds}
              = 0 .. (Cardinality(DOMAIN vertices) - 1)
        /\ Len(mesh) = Cardinality(DOMAIN vertices)
        /\ \A c \in DOMAIN vert_inds : mesh[vert_inds[c] + 1] = vertices[c].position

\* compute_mesh has returned 0 on an empty mesh for eight vertices or more,
\* one of them in the vertex sets of three regions
C19_Witness ==
    /\ pc = "meshed"
    /\ MeshFromEmpty
    /\ Cardinality(DOMAIN vert_inds) >= 8
    /\ \E c \in DOMAIN vert_inds :
          Cardinality({s \in DOMAIN mesh_regions : c \in mesh_regions[s]}) >= 3

\* d2 is d with prob_sum changed and the count, the weight, the sum of
\* squares and the room kept
OnlyFlipped(d, d2) ==
    /\ d2.prob_sum # d.prob_sum
    /\ d2 = [d EXCEPT !.prob_sum = d2.prob_sum]

MaxPlanes == 3

\* the planes of the regions: a unit normal along an axis and the offset
\* normal . point
SnapPlanes ==
    {[fitted |-> FALSE, normal |-> cube_face_normals(f), offset |-> <<d, 1>>] :
        f \in Faces, d \in {3, 5}}

\* the positions of the corner before the call: (2.9, 5.1, 7.3) and
\* (3, 5, 7)
SnapCorners ==
    {<< <<29, 10>>, <<51, 10>>, <<73, 10>> >>, << <<3, 1>>, <<5, 1>>, <<7, 1>> >>}

\* the values of min_singular_value: the default, and 0.5 from a file
SnapSettings ==
    {DefaultSettings, [DefaultSettings EXCEPT !.min_singular_value = <<1, 2>>]}

\* a call of compute_vertex_pos for a vertex of the regions 1 .. n with the
\* planes pl
SnapVertex ==
    /\ pc = "snap"
    /\ \E n \in 1 .. MaxPlanes : \E pl \in [1 .. n -> SnapPlanes] :
       \E position \in SnapCorners :
          /\ vertices' = (<<0, 0, 0>> :>
                             [position |-> compute_vertex_pos(pl, position,
                                                              settings.min_singular_value),
                              regions |-> 1 .. n])
          /\ last' = [op |-> "compute_vertex_pos", planes |-> pl, position |-> position]
    /\ pc' = "snapped"
    /\ ret' = 0
    /\ UNCHANGED <<treeVars, topoVars, outlVars, bndVars, regVars, X, Y, nops, expVars,
                   settings, imported, mesh_regions, vert_inds, mesh>>

\* a mesher after import
InitSnap ==
    /\ tree = {Root}
    /\ order = "pre"
    /\ data = << >>
    /\ data0 = << >>
    /\ pc = "snap"
    /\ ret = 0
    /\ neighs = << >>
    /\ stack = << >>
    /\ visited = {}
    /\ to_remove = {}
    /\ OutliersIdle
    /\ BoundaryEmpty
    /\ RegionsEmpty
    /\ PayloadsIdle
    /\ ExporterIdle
    /\ settings \in SnapSettings
    /\ imported = [Constructed EXCEPT !.xml = IF settings = DefaultSettings THEN ""
                                               ELSE "settings.xml",
                                      !.n = 1]
    /\ vertices = << >>
    /\ mesh_regions = << >>
    /\ vert_inds = << >>
    /\ mesh = << >>

NextSnap == SnapVertex

SpecSnap == InitSnap /\ [][NextSnap]_vars

\* the planes of the call have normals along distinct axes
DistinctAxes(pl) ==
    \A s \in DOMAIN pl : \A t \in DOMAIN pl :
        s # t => \A k \in 1 .. 3 : pl[s].normal[k] = 0 \/ pl[t].normal[k] = 0

\* the planes with normal (1,0,0) and offset 3 and normal (0,1,0) and
\* offset 5
TwoPlanes ==
    <<[fitted |-> FALSE, normal |-> <<1, 0, 0>>, offset |-> <<3, 1>>],
      [fitted |-> FALSE, normal |-> <<0, 1, 0>>, offset |-> <<5, 1>>]>>

\* the position compute_vertex_pos has stored
Snapped == vertices[<<0, 0, 0>>].position

\* C16: for planes with normals along distinct coordinate axes, the
\* coordinate of the snapped position along the axis of a plane is the
\* coordinate of that plane (its offset, for a normal in the positive
\* direction), and the coordinate along an axis without a plane is that of
\* the initial corner: normals (1,0,0) and (0,1,0) with offsets 3 and 5
\* and the corner (2.9, 5.1, 7.3) give (3, 5, 7.3).
C16_AxisSnap ==
    (pc = "snapped" /\ DistinctAxes(last.planes)) =>
        /\ \A k \in 1 .. 3 :
              IF \E s \in DOMAIN last.planes : last.planes[s].normal[k] # 0
              THEN \A s \in DOMAIN last.planes :
                      last.planes[s].normal[k] # 0 =>
                          Snapped[k] = FracMul(<<last.planes[s].normal[k], 1>>,
                                               last.planes[s].offset)
              ELSE Snapped[k] = last.position[k]
        /\ (last.planes = TwoPlanes
              /\ last.position = << <<29, 10>>, <<51, 10>>, <<73, 10>> >>)
             => Snapped = << <<3, 1>>, <<5, 1>>, <<73, 10>> >>

\* the call of the example has returned (3, 5, 7.3)
C16_Witness ==
    /\ pc = "snapped"
    /\ last.planes = TwoPlanes
    /\ last.position = << <<29, 10>>, <<51, 10>>, <<73, 10>> >>
    /\ Snapped = << <<3, 1>>, <<5, 1>>, <<73, 10>> >>

(***************************************************************************)
(* remove_outliers: termination, flips and what is left at the return      *)
(***************************************************************************)

\* remove_outliers under the fairness of a running call: the loop takes its
\* next pass, and returns when both queues are empty
MaxLiveLeaves == 8

\* the carved trees of the running call: the grid with its centre alone, with
\* the island, and with the smallest and the largest pocket, and the trees of
\* at most MaxLiveLeaves leaves
InitOutlierLive ==
    /\ InitOutlier
    /\ IF tree = GridTree
       THEN data \in {GridData, IslandData, PocketData({}),
                      PocketData(RingOf(GridCentre))}
       ELSE Cardinality(Leaves(tree)) <= MaxLiveLeaves

SpecOutlierLive ==
    /\ InitOutlierLive
    /\ [][NextOutlier]_vars
    /\ WF_vars(OutliersIter)
    /\ WF_vars(OutliersReturn)

\* every running call returns with both queues empty
QueuesDrain ==
    (pc = "remove_outliers") ~> (pc = "outliers_done" /\ in_to_check = << >>
                                   /\ out_to_check = << >>)

\* a call with a threshold outside (0.5, 1.0] has returned 0 at once, and
\* every payload is as it was
InvalidThresholdReturns ==
    (/\ pc \in {"remove_outliers", "outliers_done"}
     /\ (neigh_thresh <= 50 \/ neigh_thresh > 100)) =>
        pc = "outliers_done" /\ ret = 0 /\ data = data0

\* C24: remove_outliers terminates: with a threshold in (0.5, 1.0] both
\* queues are empty after finitely many passes and the call returns; with a
\* threshold outside that range it returns 0 at once and changes no leaf.
C24_Terminates == QueuesDrain /\ []InvalidThresholdReturns

\* remove_outliers(0.6) has returned after the flip of three leaves or more
C24_Witness ==
    /\ pc = "outliers_done"
    /\ ret = 0
    /\ neigh_thresh = 60
    /\ in_to_check = << >> /\ out_to_check = << >>
    /\ Cardinality(hist.flipped) >= 3

\* C28: in a call of remove_outliers a flipped leaf is not flipped again,
\* and no interior leaf is flipped after an exterior leaf has been.
C28_FlipOnce ==
    [][\A n \in DOMAIN data :
          data'[n] # data[n] =>
              /\ n \notin hist.flipped
              /\ topo_node_is_interior(data, n) =>
                    \A k \in hist.flipped : topo_node_is_interior(data0, k)]_vars

\* a call has flipped an interior leaf and then an exterior one
C28_Witness ==
    /\ pc = "outliers_done"
    /\ \E n \in hist.flipped : topo_node_is_interior(data0, n)
    /\ \E n \in hist.flipped : ~topo_node_is_interior(data0, n)

\* the area leaf n shares with neighbours of the other label, in hundredths
\* of its surface area, is below the threshold
NotOutlier(n) ==
    ~not_below_thresh(
        disagreeing_area(data, n, AllNeighbors(neighs[n], order, 1),
                         topo_node_is_interior(data, n), 1),
        surface_area(n), neigh_thresh)

\* C29 as stated: when remove_outliers(t) returns for t in (0.5, 1.0], no
\* leaf with a payload is an outlier
C29_AsStated ==
    (pc = "outliers_done" /\ ret = 0 /\ valid_thresh(neigh_thresh)) =>
        \A n \in DOMAIN neighs : ~DataOf(data, n).null => NotOutlier(n)

\* at the return every interior leaf is below the threshold, and an exterior
\* leaf that is not has an exterior neighbour that was flipped
OutliersLeftAreExterior ==
    (pc = "outliers_done" /\ ret = 0 /\ valid_thresh(neigh_thresh)) =>
        \A n \in DOMAIN neighs :
            (~DataOf(data, n).null /\ ~NotOutlier(n)) =>
                /\ ~topo_node_is_interior(data, n)
                /\ \E s \in hist.flipped :
                      /\ ~topo_node_is_interior(data0, s)
                      /\ \E f \in Faces : n \in neighs[s][f]

(***************************************************************************)
(* The topology of a tree without missing children                         *)
(***************************************************************************)

\* every internal node of the tree has all eight children
AllChildren ==
    \A n \in tree : IsLeaf(tree, n) \/ \A i \in ChildIdx : Child(tree, n, i) # NullNode

\* the f-face of a and the opposite face of b lie in one plane, a on the
\* inner side, and overlap with positive area
FacesOverlap(a, b, f) ==
    /\ (Center(b)[FaceAxis(f)] - Center(a)[FaceAxis(f)])
            * cube_face_normals(f)[FaceAxis(f)]
         = Halfwidth(a) + Halfwidth(b)
    /\ \A x \in 1 .. 3 :
          x # FaceAxis(f) =>
              Abs(Center(b)[x] - Center(a)[x]) < Halfwidth(a) + Halfwidth(b)

\* C27: for a tree in which every internal node has all eight children the
\* map of init holds every leaf, and b is a neighbour of a on face f exactly
\* when the f-face of a and the opposite face of b lie in one plane and
\* overlap with positive area.
C27_FaceAdjacency ==
    (TopoBuilt /\ AllChildren) =>
        /\ DOMAIN neighs = Leaves(tree)
        /\ \A a, b \in Leaves(tree) : \A f \in Faces :
              a # b => (b \in neighs[a][f] <=> FacesOverlap(a, b, f))

\* init has returned for a tree without missing children in which a leaf has
\* a subdivided node of its own size on a face, and holds the four leaves of
\* that node that touch the face
C27_Witness ==
    /\ TopoBuilt
    /\ AllChildren
    /\ \E a \in DOMAIN neighs : \E f \in Faces : \E p \in tree :
          /\ ~IsLeaf(tree, p)
          /\ Len(p) = Len(a)
          /\ FacesOverlap(a, p, f)
          /\ Cardinality(neighs[a][f]) = 4
          /\ \A m \in neighs[a][f] : Parent(m) = p

(***************************************************************************)
(* The links between the faces of a boundary                               *)
(***************************************************************************)

\* two faces of one direction lie in one plane
Coplanar(a, b) ==
    Dot(cube_face_normals(a.direction),
        Minus(face_get_center(a), face_get_center(b))) = 0

\* two distinct faces share an edge with compatible orientation: of one
\* direction, in one plane and abutting; or of perpendicular directions and
\* meeting at a corner
EdgeCompatible(a, b) ==
    /\ a # b
    /\ shares_edge_with(a, b)
    /\ a.direction = b.direction => Coplanar(a, b)

\* C22 as stated: after populate every two distinct boundary faces that
\* share an edge with compatible orientation are linked, two faces of one
\* interior leaf whose exteriors are both absent included.
C22_AsStated ==
    pc = "populated" =>
        \A a, b \in DOMAIN faces : EdgeCompatible(a, b) => b \in faces[a]

\* C30: after populate the links between faces are symmetric and no face is
\* linked to itself, also when an interior leaf has several finer exterior
\* neighbours on one face.
C30_LinksSymmetric ==
    pc = "populated" =>
        \A a, b \in DOMAIN faces :
            /\ a \notin faces[a]
            /\ b \in faces[a] <=> a \in faces[b]

\* populate has returned for an interior leaf with two finer exterior
\* neighbours on one face, whose two faces are linked to each other
C30_Witness ==
    /\ pc = "populated"
    /\ \E a, b \in DOMAIN faces :
          /\ a # b
          /\ a.interior = b.interior
          /\ a.direction = b.direction
          /\ a.exterior # NullNode /\ b.exterior # NullNode
          /\ Halfwidth(a.exterior) < Halfwidth(a.interior)
          /\ Halfwidth(b.exterior) < Halfwidth(b.interior)
          /\ b \in faces[a] /\ a \in faces[b]

(***************************************************************************)
(* The planarity threshold and the regions of populate                     *)
(***************************************************************************)

\* C25 as stated: after populate on a graph initialised with planarity
\* threshold t, a face whose planarity is below t is the only face of its
\* region, and a region of two faces or more holds only faces whose
\* planarity is at least t.
C25_AsStated ==
    pc = "regions_populated" =>
        \A sd \in DOMAIN regions : \A fc \in regions[sd].region :
            FracLess(face_get_planarity(data, fc), planarity_threshold) =>
                regions[sd].region = {fc}

(***************************************************************************)
(* The neighbour seeds of the regions                                      *)
(***************************************************************************)

\* C23: after populate and after every merge of coalesce_regions, every
\* neighbour seed of a region is the seed of an existing region other than
\* itself, which has the region among its own neighbour seeds; no set holds
\* the seed of a region that a merge has swallowed.
C23_NeighborSeeds ==
    pc \in {"regions_populated", "coalesce", "coalesced"} =>
        /\ \A r \in DOMAIN regions :
              /\ r \notin regions[r].neighbor_seeds
              /\ \A sd \in regions[r].neighbor_seeds :
                    sd \in DOMAIN regions /\ r \in regions[sd].neighbor_seeds
        /\ merged # << >> =>
              \A r \in DOMAIN regions : merged.second \notin regions[r].neighbor_seeds

\* a merge has swallowed a region that had a neighbour other than the region
\* it was merged into, and the merged region has a neighbour
C23_Witness ==
    /\ pc \in {"coalesce", "coalesced"}
    /\ merged # << >>
    /\ merged.first \in DOMAIN regions
    /\ merged.second \notin DOMAIN regions
    /\ regions[merged.first].neighbor_seeds # {}
    /\ \E r \in DOMAIN regions \ {merged.first} :
          merged.first \in regions[r].neighbor_seeds

(***************************************************************************)
(* The variance of the position of a face                                  *)
(***************************************************************************)

\* the sign of x - 0.5: -1, 0 or 1
SignAboutHalf(x) ==
    IF 2 * x[1] < x[2] THEN -1 ELSE IF 2 * x[1] = x[2] THEN 0 ELSE 1

\* the variance the contract gives a valid face: a face is hidden when
\* mu_i - 0.5 and mu_e - 0.5 have one sign
ContractVariance(dat, fc) ==
    LET mu_i == get_probability(DataOf(dat, fc.interior))
        mu_e == FaceMuE(dat, fc)
        hw_i == Halfwidth(fc.interior)
        hw_e == FaceExtHw(fc)
        var_i == get_uncertainty(DataOf(dat, fc.interior))
        var_e == IF fc.exterior = NullNode THEN <<1, 1>>
                 ELSE get_uncertainty(DataOf(dat, fc.exterior))
        df == FracSub(mu_i, mu_e)
        sc == FracMul(FracSub(mu_i, <<1, 2>>), Frac(df[2], df[1]))
        ss == FracMul(sc, sc)
    IN IF SignAboutHalf(mu_i) = SignAboutHalf(mu_e)
       THEN Frac((hw_e - hw_i) * (hw_e - hw_i), 12)
       ELSE FracMul(<<(hw_i + hw_e) * (hw_i + hw_e), 1>>,
                    FracAdd(FracMul(FracSub(<<1, 1>>, ss), var_i), FracMul(ss, var_e)))

\* C21 as stated: every computation of the variance of the position of a
\* face follows the contract; a face is hidden exactly when mu_i - 0.5 and
\* mu_e - 0.5 have the same sign, so a face with mu_i > 0.5 whose exterior is
\* absent or has probability 0.5 gets the interpolated variance.
C21_AsStated ==
    (pc \in {"coalesce", "coalesced"} /\ useiso) =>
        \A r \in DOMAIN regions : \A fc \in regions[r].variances \ {NoFace} :
            FaceValid(data, fc) =>
                /\ face_get_pos_variance(data, fc) = ContractVariance(data, fc)
                /\ get_face_pos_var(data, fc) = ContractVariance(data, fc)

\* node_face_t::get_pos_variance differs from the contract only for a face
\* with mu_i > 0.5 whose exterior is absent or has probability 0.5
VarianceDiffersAtHalf ==
    (pc \in {"coalesce", "coalesced"} /\ useiso) =>
        \A r \in DOMAIN regions : \A fc \in regions[r].variances \ {NoFace} :
            (/\ FaceValid(data, fc)
             /\ face_get_pos_variance(data, fc) # ContractVariance(data, fc)) =>
                /\ SignAboutHalf(FaceMuE(data, fc)) = 0
                /\ SignAboutHalf(get_probability(DataOf(data, fc.interior))) = 1

(***************************************************************************)
(* The order of the calls of export_all, export_planar_mesh and            *)
(* export_regions (tree_exporter.cpp)                                      *)
(***************************************************************************)

Exporters == {"export_all", "export_planar_mesh", "export_regions"}

\* a variant in which export_regions removes the outliers as well
every_exporter(e) == TRUE

\* the functions that call top.remove_outliers: export_all at line 86 and
\* export_planar_mesh at line 216; export_regions goes from top.init
\* straight to boundary.populate
RemovesOutliers(e) == e \in {"export_all", "export_planar_mesh"}

\* a leaf is observed with probability 0.9 inside room 0, or with
\* probability 0.1 inside room 0 or outside the rooms
PipelinePayloads == {OctData(1, 9, 0), OctData(1, 1, 0), OctData(1, 1, -1)}

\* node_boundary_t::populate on a fresh object: the faces with their links,
\* or << >> with ret = -1
populated(s) ==
    With(populate_faces(s, data, neighs, order, DOMAIN neighs,
                        [faces |-> {}, node_face_map |-> {}, ret |-> 0]),
         LAMBDA st :
            IF st.ret # 0 THEN [ret |-> -1, faces |-> << >>]
            ELSE [ret |-> 0,
                  faces |-> Forced([fc \in st.faces |->
                                       face_linkages(neighs, st.node_face_map, fc)])])

\* export_all: object_boundary.populate(top, SEG_OBJECTS) and
\* face_mesher.add(tree, object_boundary), before the outliers are removed
ExportObjectBoundary ==
    /\ exporter = "export_all"
    /\ pc = "done"
    /\ object_faces' = populated(SEG_OBJECTS).faces
    /\ calls' = calls \o <<"populate", "face_mesher.add">>
    /\ ret' = populated(SEG_OBJECTS).ret
    /\ pc' = IF populated(SEG_OBJECTS).ret = 0 THEN "objects_populated" ELSE "failed"
    /\ UNCHANGED <<payVars, meshVars, exporter, treeVars, topoVars, outlVars, bndVars,
                   regVars>>

\* export_all and export_planar_mesh:
\* top.remove_outliers(mesher.get_node_outlierthresh())
PipelineRemoveOutliers ==
    /\ RemovesOutliers(exporter)
    /\ pc = (IF exporter = "export_all" THEN "objects_populated" ELSE "done")
    /\ OutliersCalled((settings.node_outlierthresh[1] * 100)
                        \div settings.node_outlierthresh[2])
    /\ ret' = 0
    /\ hist' = NoHist
    /\ data0' = data
    /\ calls' = Append(calls, "remove_outliers")
    /\ UNCHANGED <<payVars, meshVars, exporter, object_faces, tree, order, data,
                   topoVars, bndVars, regVars>>

\* room_boundary.populate(top, SEG_ROOM) of export_all and
\* boundary.populate(top, scheme) of the two others, up to
\* populate_face_linkages
PipelinePopulate ==
    /\ pc = (IF RemovesOutliers(exporter) THEN "outliers_done" ELSE "done")
    /\ exporter \in Exporters
    /\ \E s \in (IF exporter = "export_all" THEN {SEG_ROOM} ELSE Schemes) :
          FacesPopulated(s)
    /\ calls' = Append(calls, "populate")
    /\ UNCHANGED <<payVars, meshVars, exporter, object_faces, treeVars, topoVars,
                   outlVars, regVars>>

\* mesher.init and mesher.compute_mesh, which export_regions does not call
PipelineMesherInit == exporter # "export_regions" /\ MesherInit

PipelineComputeMesh == exporter # "export_regions" /\ ComputeMesh

\* a carved tree whose topology has been built, and the objects of one of
\* the three functions after their constructors, the import of the settings
\* and top.init. OutlierTree, whose faces are few only once its outliers
\* are flipped, is given to the two functions that remove them
InitPipeline ==
    /\ tree \in {t \in Trees : Cardinality(Leaves(t)) <= MaxRegionLeaves} \cup {OutlierTree}
    /\ order = "pre"
    /\ neighs = TopoOf(tree, order)
    /\ IF tree = OutlierTree THEN data = OutlierData
       ELSE data \in [Leaves(tree) -> PipelinePayloads]
    /\ data0 = data
    /\ pc = "done"
    /\ ret = 0
    /\ stack = << >>
    /\ visited = DOMAIN neighs
    /\ to_remove = {}
    /\ OutliersIdle
    /\ PayloadsIdle
    /\ exporter \in (IF tree = OutlierTree THEN {e \in Exporters : RemovesOutliers(e)}
                     ELSE Exporters)
    /\ object_faces = << >>
    /\ calls = <<"import", "init">>
    /\ settings \in (IF tree = OutlierTree THEN ExportSettings \ {DefaultSettings}
                     ELSE ExportSettings)
    /\ imported = [Constructed EXCEPT !.xml = IF settings = DefaultSettings THEN ""
                                               ELSE "settings.xml",
                                      !.n = 1]
    /\ vertices = << >>
    /\ mesh_regions = << >>
    /\ vert_inds = << >>
    /\ mesh = << >>
    /\ BoundaryEmpty
    /\ RegionsEmpty

NextPipeline ==
    \/ ExportObjectBoundary
    \/ PipelineRemoveOutliers
    \/ OutliersIter
    \/ OutliersReturn
    \/ PipelinePopulate
    \/ PopulateFaceLinkages
    \/ RegionsPopulate
    \/ CoalesceStart
    \/ CoalesceStep
    \/ CoalesceReturn
    \/ PipelineMesherInit
    \/ PipelineComputeMesh

SpecPipeline == InitPipeline /\ [][NextPipeline]_vars

\* C26 as stated: in every export pipeline remove_outliers, when it runs,
\* runs before every node_boundary_t::populate of that pipeline.
C26_AsStated ==
    \A i, j \in DOMAIN calls :
        (calls[i] = "remove_outliers" /\ calls[j] = "populate") => i < j

\* C26: export_planar_mesh calls remove_outliers before its populate;
\* export_all calls it after the populate of the object boundary and before
\* the populate of the room boundary; export_regions does not call it.
C26_OutliersBeforeRoomBoundary ==
    LET at(c) == {i \in DOMAIN calls : calls[i] = c}
    IN /\ exporter = "export_regions" => at("remove_outliers") = {}
       /\ exporter = "export_planar_mesh" =>
             \A i \in at("remove_outliers") : \A j \in at("populate") : i < j
       /\ exporter = "export_all" =>
             \A i \in at("remove_outliers") :
                 /\ {j \in at("populate") : j < i} = {3}
                 /\ Cardinality({j \in at("populate") : j > i}) <= 1
       /\ Cardinality(at("remove_outliers")) <= 1
       /\ pc \in {"populated", "regions_populated", "coalesce", "coalesced",
                   "mesher_init", "meshed"} =>
             (RemovesOutliers(exporter) <=> at("remove_outliers") # {})

\* export_all has flipped a leaf after it populated the object boundary, and
\* has populated the room boundary since
C26_Witness ==
    /\ exporter = "export_all"
    /\ pc = "populated"
    /\ calls = <<"import", "init", "populate", "face_mesher.add",
                 "remove_outliers", "populate">>
    /\ hist.flipped # {}
====
